---- MODULE Spec2Model ----
(***************************************************************************)
(* Model of the motion engine of ServoEasing.hpp (default build: Arduino   *)
(* Servo library as pulse output, all easing types compiled in).           *)
(*                                                                         *)
(* Every library function is modelled as an operator that maps a "world"   *)
(* record (all static and per-object data, plus the pulses written and the *)
(* callbacks invoked by the running operation) to the world after the      *)
(* call.  Each action applies one public operation as a whole.             *)
(***************************************************************************)
EXTENDS Integers, Sequences, FiniteSets, TLC

(* ----------------------------- bounds ---------------------------------- *)
MaxTicks == 2           \* refresh intervals the clock millis() runs for
Garbage == 1            \* value of an uninitialised int of an automatic object

(* ------------------------ program constants ---------------------------- *)
MAX_EASING_SERVOS == 2  \* size of ServoEasingArray (scaled down)
INVALID_SERVO == 255
DEFAULT_MICROSECONDS_FOR_0_DEGREE == 544
DEFAULT_MICROSECONDS_FOR_180_DEGREE == 2400
DEFAULT_PULSE_WIDTH == 1500
THRESHOLD_VALUE_FOR_INTERPRETING_VALUE_AS_MICROSECONDS == 400
MILLIS_IN_ONE_SECOND == 1000
REFRESH_INTERVAL_MILLIS == 20
START_EASE_TO_SPEED == 90
EASE_LINEAR == 0
EASE_QUADRATIC_IN == 1
EASE_DUMMY_MOVE == 7
EASE_TYPE_MASK == 15
CALL_STYLE_DIRECT == 0
CALL_STYLE_OUT == 32
CALL_STYLE_IN_OUT == 64
CALL_STYLE_BOUNCING_OUT_IN == 96
UINT16_MODULUS == 65536          \* uint_fast16_t on the 8 bit AVR targets

NULL == 0
Servos == {1, 2}                 \* the ServoEasing objects of the application
Slots == 0..(MAX_EASING_SERVOS - 1)

(* ------------------------- inputs of the model ------------------------- *)
Degrees == {0, 180}              \* aDegreeOrMicrosecond arguments
MillisChoices == {0, 40}         \* aMillisForMove arguments
ShortMillisChoices == {0, REFRESH_INTERVAL_MILLIS}
FarDegree == 180                 \* a target that differs from the initial entries
SpeedChoices == {4500}           \* aDegreesPerSecond arguments
SlowSpeedChoices == {0, 1, 2}         \* speeds around the speed 0 that startEaseTo() replaces
\* calibrations given to attach(): the default, two common servo ranges and
\* a range of less than 928 microseconds
CalibrationChoices == {<<544, 2400>>, <<1000, 2000>>, <<500, 2500>>, <<1000, 1900>>}
AllDegrees == 0..180
\* the example move: 90 degree at 60 degree per second, observed every 250 ms
ExampleMaxNow == 2000
ExampleDegrees == {0, 90}
ExampleSpeeds == {60}
ExampleSteps == {250, 750}
MaxNow == MaxTicks * REFRESH_INTERVAL_MILLIS
\* a linear move sampled at uneven intervals: clock steps, durations, last clock value
LinearSteps == {1, 7, 20}
LinearMillisChoices == {25, 60}
LinearMaxNow == 60
\* aMillisDelay arguments: none, and two periods and a half
WaitDelayChoices == {0, 50}
\* the values of a uint_fast8_t of the modelled build
UINT8_MODULUS == 256
ClipInputs == 0..(UINT8_MODULUS - 1)
\* trims in degree, of both signs
TrimDegreeChoices == {-9, 18}
\* clock progress while updateAllServos() runs
MidTickSteps == {0, REFRESH_INTERVAL_MILLIS}
HandlerKinds == {"NULL", "count", "restart"}
RestartDegree == 0               \* the move a "restart" handler starts
RestartMillis == 40
EASE_QUADRATIC_BOUNCING == CALL_STYLE_BOUNCING_OUT_IN + EASE_QUADRATIC_IN
EasingTypeChoices == {EASE_LINEAR, EASE_QUADRATIC_BOUNCING}
\* easing types of every kind: linear, a curve in the in-out and in the bouncing
\* call style, and the dummy move
SelectorChoices ==
    {EASE_LINEAR, CALL_STYLE_IN_OUT + EASE_QUADRATIC_IN, EASE_QUADRATIC_BOUNCING,
     EASE_DUMMY_MOVE}
\* the linear easing type and the one that makes a start a dummy move
DummyChoices == {EASE_LINEAR, EASE_DUMMY_MOVE}
FastSpeedChoices == {9000}       \* 180 degree in one refresh interval

VARIABLES servo, ServoEasingArray, sServoArrayMaxIndex,
          ServoEasingNextPositionArray, sInterruptsAreActive,
          now, lastOp, out, calls, pc

vars == <<servo, ServoEasingArray, sServoArrayMaxIndex,
          ServoEasingNextPositionArray, sInterruptsAreActive,
          now, lastOp, out, calls, pc>>

\* pc is the foreground call the periodic trigger may interrupt: the function,
\* the source line of the statement it executes next, its object, its arguments
\* d, m and b, its locals tCurrentMicrosecondsOrUnits (t) and tReturnValue (r),
\* and the fields of the move the channel had when the call began (old);
\* NoCall when the foreground is between calls
NoCall ==
    [fn |-> "none", line |-> 0, o |-> 0, d |-> 0, m |-> 0, b |-> FALSE,
     t |-> 0, r |-> FALSE, old |-> <<0, 0, 0, 0, 0>>]

(* --------------------------- arithmetic -------------------------------- *)
Abs(x) == IF x < 0 THEN -x ELSE x

\* C integer division: truncation toward zero
CDiv(a, b) ==
    IF (a >= 0) = (b > 0) THEN Abs(a) \div Abs(b) ELSE -(Abs(a) \div Abs(b))

\* Arduino map(): long arithmetic, truncating division
map(x, in_min, in_max, out_min, out_max) ==
    CDiv((x - in_min) * (out_max - out_min), in_max - in_min) + out_min

CallStyle(aEasingType) == (aEasingType \div 32) * 32

(* ------------------------- unit conversion ----------------------------- *)
MicrosecondsOrUnitsToDegree(s, aMicrosecondsOrUnits) ==
    CDiv((aMicrosecondsOrUnits - s.mServo0DegreeMicrosecondsOrUnits) * 180 + 928,
         s.mServo180DegreeMicrosecondsOrUnits - s.mServo0DegreeMicrosecondsOrUnits)

MicrosecondsToDegree(s, aMicroseconds) ==
    MicrosecondsOrUnitsToDegree(s, aMicroseconds)

getCurrentAngle(s) ==
    MicrosecondsOrUnitsToDegree(s, s.mCurrentMicrosecondsOrUnits)

DegreeToMicrosecondsOrUnits(s, aDegreeOrMicroseconds) ==
    IF aDegreeOrMicroseconds < THRESHOLD_VALUE_FOR_INTERPRETING_VALUE_AS_MICROSECONDS
    THEN map(aDegreeOrMicroseconds, 0, 180,
             s.mServo0DegreeMicrosecondsOrUnits, s.mServo180DegreeMicrosecondsOrUnits)
    ELSE aDegreeOrMicroseconds

\* the value handed to Servo::writeMicroseconds()
TrimAndReverse(s, aMicrosecondsOrUnits) ==
    LET t == aMicrosecondsOrUnits + s.mTrimMicrosecondsOrUnits IN
    IF s.mOperateServoReverse
    THEN s.mServo180DegreeMicrosecondsOrUnits - (t - s.mServo0DegreeMicrosecondsOrUnits)
    ELSE t

(* ------------------------------ world ---------------------------------- *)
World ==
    [servo |-> servo, arr |-> ServoEasingArray, maxIdx |-> sServoArrayMaxIndex,
     nextPos |-> ServoEasingNextPositionArray, irq |-> sInterruptsAreActive,
     out |-> [o \in Servos |-> <<>>], calls |-> [o \in Servos |-> <<>>],
     ret |-> "void"]

\* the object as the constructor leaves it: the fields the constructor does not
\* set are zero for an object of static storage and indeterminate otherwise
Constructed(aIndex, aInt) ==
    [mServoIndex |-> aIndex,
     mServoMoves |-> FALSE,
     mCurrentMicrosecondsOrUnits |-> aInt,
     mStartMicrosecondsOrUnits |-> aInt,
     mEndMicrosecondsOrUnits |-> aInt,
     mDeltaMicrosecondsOrUnits |-> aInt,
     mMillisForCompleteMove |-> aInt,
     mMillisAtStartMove |-> aInt,
     mServo0DegreeMicrosecondsOrUnits |-> aInt,
     mServo180DegreeMicrosecondsOrUnits |-> aInt,
     mTrimMicrosecondsOrUnits |-> 0,
     mOperateServoReverse |-> FALSE,
     mSpeed |-> START_EASE_TO_SPEED,
     mEasingType |-> EASE_LINEAR,
     TargetPositionReachedHandler |-> "NULL"]

StorageClasses == {Constructed(0, 0), Constructed(INVALID_SERVO, Garbage)}

(* ---------------------- scheduler adapter ------------------------------ *)
enableServoEasingInterrupt(w) == [w EXCEPT !.irq = TRUE]

disableServoEasingInterrupt(w) == [w EXCEPT !.irq = FALSE]

(* ------------------------- channel operations -------------------------- *)
\* a writeMicrosecondsOrUnits() that keeps the value it hands to the output
writeMicrosecondsOrUnitsKeepsOutput(w, o, aMicrosecondsOrUnits) ==
    LET s == w.servo[o] IN
    IF s.mServoIndex = INVALID_SERVO THEN w
    ELSE [w EXCEPT !.servo[o].mCurrentMicrosecondsOrUnits =
                       TrimAndReverse(s, aMicrosecondsOrUnits),
                   !.out[o] = Append(@, TrimAndReverse(s, aMicrosecondsOrUnits))]

writeMicrosecondsOrUnits(w, o, aMicrosecondsOrUnits) ==
    LET s == w.servo[o] IN
    IF s.mServoIndex = INVALID_SERVO THEN w
    ELSE [w EXCEPT !.servo[o].mCurrentMicrosecondsOrUnits = aMicrosecondsOrUnits,
                   !.out[o] = Append(@, TrimAndReverse(s, aMicrosecondsOrUnits))]

setReverseOperation(w, o, aOperateServoReverse) ==
    [w EXCEPT !.servo[o].mOperateServoReverse = aOperateServoReverse]

setTrimMicrosecondsOrUnits(w, o, aTrimMicrosecondsOrUnits, aDoWrite) ==
    LET w1 == [w EXCEPT !.servo[o].mTrimMicrosecondsOrUnits = aTrimMicrosecondsOrUnits]
    IN IF aDoWrite
       THEN writeMicrosecondsOrUnits(w1, o, w1.servo[o].mCurrentMicrosecondsOrUnits)
       ELSE w1

setTrim(w, o, aTrimDegrees, aDoWrite) ==
    LET s == w.servo[o] IN
    IF aTrimDegrees >= 0
    THEN setTrimMicrosecondsOrUnits(w, o,
             DegreeToMicrosecondsOrUnits(s, aTrimDegrees)
                 - s.mServo0DegreeMicrosecondsOrUnits, aDoWrite)
    ELSE setTrimMicrosecondsOrUnits(w, o,
             -(DegreeToMicrosecondsOrUnits(s, -aTrimDegrees)
                 - s.mServo0DegreeMicrosecondsOrUnits), aDoWrite)

\* a write() that leaves ServoEasingNextPositionArray alone
writeKeepsNextPosition(w, o, aDegreeOrMicrosecond) ==
    LET s == w.servo[o] IN
    IF s.mServoIndex = INVALID_SERVO THEN w
    ELSE writeMicrosecondsOrUnits(w, o, DegreeToMicrosecondsOrUnits(s, aDegreeOrMicrosecond))

write(w, o, aDegreeOrMicrosecond) ==
    LET s == w.servo[o] IN
    IF s.mServoIndex = INVALID_SERVO THEN w
    ELSE writeMicrosecondsOrUnits(
             [w EXCEPT !.nextPos[s.mServoIndex] = aDegreeOrMicrosecond],
             o, DegreeToMicrosecondsOrUnits(s, aDegreeOrMicrosecond))

\* a search that takes the free slot with the highest index
FreeSlotHighest(w, aIndex) ==
    LET tFree == {i \in aIndex..(MAX_EASING_SERVOS - 1) : w.arr[i] = NULL}
    IN IF tFree = {} THEN INVALID_SERVO
       ELSE CHOOSE i \in tFree : \A j \in tFree : j <= i

RECURSIVE FreeSlot(_, _)
\* lowest free slot at or after aIndex, INVALID_SERVO if there is none
FreeSlot(w, aIndex) ==
    IF aIndex >= MAX_EASING_SERVOS THEN INVALID_SERVO
    ELSE IF w.arr[aIndex] = NULL THEN aIndex
    ELSE FreeSlot(w, aIndex + 1)

setEasingType(w, o, aEasingType) ==
    [w EXCEPT !.servo[o].mEasingType = aEasingType, !.ret = "void"]

\* attach(aPin, aMicrosecondsForServo0Degree, aMicrosecondsForServo180Degree):
\* the calibration is given for 0 and 180 degree, no initial write
attachMicroseconds(w, o, aMicrosecondsForServo0Degree, aMicrosecondsForServo180Degree) ==
    LET tReturnValue == FreeSlot(w, 0)
        w1 == [w EXCEPT
                 !.servo[o].mServo0DegreeMicrosecondsOrUnits =
                     map(0, 0, 180, aMicrosecondsForServo0Degree,
                         aMicrosecondsForServo180Degree),
                 !.servo[o].mServo180DegreeMicrosecondsOrUnits =
                     map(180, 0, 180, aMicrosecondsForServo0Degree,
                         aMicrosecondsForServo180Degree),
                 !.servo[o].mServoIndex = tReturnValue]
    IN IF tReturnValue = INVALID_SERVO THEN [w1 EXCEPT !.ret = "INVALID_SERVO"]
       ELSE [w1 EXCEPT
               !.arr[tReturnValue] = o,
               !.maxIdx = IF tReturnValue > @ THEN tReturnValue ELSE @,
               !.servo[o].mCurrentMicrosecondsOrUnits = DEFAULT_PULSE_WIDTH,
               !.ret = "Servo::attach"]

\* attach(aPin): default calibration, no initial write
attach(w, o) ==
    attachMicroseconds(w, o, DEFAULT_MICROSECONDS_FOR_0_DEGREE,
                       DEFAULT_MICROSECONDS_FOR_180_DEGREE)


\* a detach() without the loop that lowers sServoArrayMaxIndex
NewMaxIndexKept(aArray, aMaxIndex) == aMaxIndex

RECURSIVE NewMaxIndex(_, _)
NewMaxIndex(aArray, aMaxIndex) ==
    IF aArray[aMaxIndex] = NULL /\ aMaxIndex > 0
    THEN NewMaxIndex(aArray, aMaxIndex - 1)
    ELSE aMaxIndex

\* a detach() that moves the channel of the highest slot into the freed slot
detachCompacts(w, o) ==
    LET s == w.servo[o]
        tLast == w.maxIdx
        w1 == IF s.mServoIndex # INVALID_SERVO
              THEN IF tLast > s.mServoIndex /\ w.arr[tLast] # NULL /\ w.arr[tLast] # o
                   THEN LET a == [w.arr EXCEPT ![s.mServoIndex] = w.arr[tLast],
                                               ![tLast] = NULL] IN
                        [w EXCEPT !.arr = a, !.maxIdx = NewMaxIndex(a, @),
                                  !.servo[w.arr[tLast]].mServoIndex = s.mServoIndex]
                   ELSE LET a == [w.arr EXCEPT ![s.mServoIndex] = NULL] IN
                        [w EXCEPT !.arr = a, !.maxIdx = NewMaxIndex(a, @)]
              ELSE w
    IN [w1 EXCEPT !.servo[o].mServoMoves = FALSE,
                  !.servo[o].mServoIndex = INVALID_SERVO]

detach(w, o) ==
    LET s == w.servo[o]
        w1 == IF s.mServoIndex # INVALID_SERVO
              THEN LET a == [w.arr EXCEPT ![s.mServoIndex] = NULL] IN
                   [w EXCEPT !.arr = a, !.maxIdx = NewMaxIndex(a, @)]
              ELSE w
    IN [w1 EXCEPT !.servo[o].mServoMoves = FALSE,
                  !.servo[o].mServoIndex = INVALID_SERVO]

\* startEaseToD() with a duration of at least aMinMillis, and with the given
\* value returned for an object that moves
startEaseToDVariant(w, o, aDegreeOrMicrosecond, aMillisForMove, aStartUpdateByInterrupt,
                    aMillis, aMinMillis, aReturnWhenMoving) ==
    LET s == w.servo[o] IN
    IF s.mServoIndex = INVALID_SERVO THEN [w EXCEPT !.ret = TRUE]
    ELSE
      LET tSetsEnd == s.mEasingType # EASE_DUMMY_MOVE
          tEnd == IF tSetsEnd THEN DegreeToMicrosecondsOrUnits(s, aDegreeOrMicrosecond)
                  ELSE s.mEndMicrosecondsOrUnits
          tCurrentMicrosecondsOrUnits == s.mCurrentMicrosecondsOrUnits
          w1 == [w EXCEPT
                   !.nextPos[s.mServoIndex] =
                       IF tSetsEnd THEN aDegreeOrMicrosecond ELSE @,
                   !.servo[o].mEndMicrosecondsOrUnits =
                       IF CallStyle(s.mEasingType) = CALL_STYLE_BOUNCING_OUT_IN
                       THEN tCurrentMicrosecondsOrUnits ELSE tEnd,
                   !.servo[o].mDeltaMicrosecondsOrUnits = tEnd - tCurrentMicrosecondsOrUnits,
                   !.servo[o].mMillisForCompleteMove =
                       IF aMillisForMove < aMinMillis THEN aMinMillis ELSE aMillisForMove,
                   !.servo[o].mStartMicrosecondsOrUnits = tCurrentMicrosecondsOrUnits,
                   !.servo[o].mMillisAtStartMove = aMillis,
                   !.servo[o].mServoMoves = TRUE,
                   !.ret = IF s.mServoMoves THEN aReturnWhenMoving ELSE ~aReturnWhenMoving]
      IN IF aStartUpdateByInterrupt /\ ~w1.irq
         THEN enableServoEasingInterrupt(w1) ELSE w1

\* a start that never stores a duration of 0
startEaseToDAtLeastOneMilli(w, o, aDegreeOrMicrosecond, aMillisForMove, aStartUpdateByInterrupt, aMillis) ==
    startEaseToDVariant(w, o, aDegreeOrMicrosecond, aMillisForMove,
                        aStartUpdateByInterrupt, aMillis, 1, FALSE)

\* a start that returns whether a move was in progress
startEaseToDReturnsWasMoving(w, o, aDegreeOrMicrosecond, aMillisForMove, aStartUpdateByInterrupt, aMillis) ==
    startEaseToDVariant(w, o, aDegreeOrMicrosecond, aMillisForMove,
                        aStartUpdateByInterrupt, aMillis, 0, TRUE)

\* a start that reports a detached channel by returning false
startEaseToDRejectsWithFalse(w, o, aDegreeOrMicrosecond, aMillisForMove, aStartUpdateByInterrupt, aMillis) ==
    IF w.servo[o].mServoIndex = INVALID_SERVO THEN [w EXCEPT !.ret = FALSE]
    ELSE startEaseToDVariant(w, o, aDegreeOrMicrosecond, aMillisForMove,
                             aStartUpdateByInterrupt, aMillis, 0, FALSE)

\* a start that keeps the start position of the move it pre-empts
startEaseToDKeepsStart(w, o, aDegreeOrMicrosecond, aMillisForMove, aStartUpdateByInterrupt, aMillis) ==
    LET w1 == startEaseToDVariant(w, o, aDegreeOrMicrosecond, aMillisForMove,
                                  aStartUpdateByInterrupt, aMillis, 0, FALSE)
    IN IF w.servo[o].mServoIndex # INVALID_SERVO /\ w.servo[o].mServoMoves
       THEN [w1 EXCEPT !.servo[o].mStartMicrosecondsOrUnits =
                           w.servo[o].mStartMicrosecondsOrUnits]
       ELSE w1

startEaseToD(w, o, aDegreeOrMicrosecond, aMillisForMove, aStartUpdateByInterrupt, aMillis) ==
    LET s == w.servo[o] IN
    IF s.mServoIndex = INVALID_SERVO THEN [w EXCEPT !.ret = TRUE]
    ELSE
      LET tSetsEnd == s.mEasingType # EASE_DUMMY_MOVE
          tEnd == IF tSetsEnd THEN DegreeToMicrosecondsOrUnits(s, aDegreeOrMicrosecond)
                  ELSE s.mEndMicrosecondsOrUnits
          tCurrentMicrosecondsOrUnits == s.mCurrentMicrosecondsOrUnits
          w1 == [w EXCEPT
                   !.nextPos[s.mServoIndex] =
                       IF tSetsEnd THEN aDegreeOrMicrosecond ELSE @,
                   !.servo[o].mEndMicrosecondsOrUnits =
                       IF CallStyle(s.mEasingType) = CALL_STYLE_BOUNCING_OUT_IN
                       THEN tCurrentMicrosecondsOrUnits ELSE tEnd,
                   !.servo[o].mDeltaMicrosecondsOrUnits = tEnd - tCurrentMicrosecondsOrUnits,
                   !.servo[o].mMillisForCompleteMove = aMillisForMove,
                   !.servo[o].mStartMicrosecondsOrUnits = tCurrentMicrosecondsOrUnits,
                   !.servo[o].mMillisAtStartMove = aMillis,
                   !.servo[o].mServoMoves = TRUE,
                   !.ret = ~s.mServoMoves]
      IN IF aStartUpdateByInterrupt /\ ~w1.irq
         THEN enableServoEasingInterrupt(w1) ELSE w1

\* a start by speed that takes the speed 0 for the default speed
startEaseToZeroIsDefaultSpeed(w, o, aDegreeOrMicrosecond, aDegreesPerSecond, aStartUpdateByInterrupt, aMillis) ==
    LET s == w.servo[o]
        tDegreesPerSecond == IF aDegreesPerSecond = 0 THEN START_EASE_TO_SPEED ELSE aDegreesPerSecond
        tTargetDegree ==
            IF aDegreeOrMicrosecond >= THRESHOLD_VALUE_FOR_INTERPRETING_VALUE_AS_MICROSECONDS
            THEN MicrosecondsToDegree(s, aDegreeOrMicrosecond)
            ELSE aDegreeOrMicrosecond
        tCurrentDegree == MicrosecondsOrUnitsToDegree(s, s.mCurrentMicrosecondsOrUnits)
        tMillis == ((Abs(tTargetDegree - tCurrentDegree) * MILLIS_IN_ONE_SECOND)
                       \div tDegreesPerSecond) % UINT16_MODULUS
        tMillisForCompleteMove ==
            IF CallStyle(s.mEasingType) = CALL_STYLE_BOUNCING_OUT_IN
            THEN (tMillis * 2) % UINT16_MODULUS ELSE tMillis
    IN startEaseToD(w, o, aDegreeOrMicrosecond, tMillisForCompleteMove,
                    aStartUpdateByInterrupt, aMillis)

\* a start by speed that takes the double time for every call style
startEaseToDoublesAlways(w, o, aDegreeOrMicrosecond, aDegreesPerSecond, aStartUpdateByInterrupt, aMillis) ==
    LET s == w.servo[o]
        tDegreesPerSecond == IF aDegreesPerSecond = 0 THEN 1 ELSE aDegreesPerSecond
        tTargetDegree ==
            IF aDegreeOrMicrosecond >= THRESHOLD_VALUE_FOR_INTERPRETING_VALUE_AS_MICROSECONDS
            THEN MicrosecondsToDegree(s, aDegreeOrMicrosecond)
            ELSE aDegreeOrMicrosecond
        tCurrentDegree == MicrosecondsOrUnitsToDegree(s, s.mCurrentMicrosecondsOrUnits)
        tMillis == ((Abs(tTargetDegree - tCurrentDegree) * MILLIS_IN_ONE_SECOND)
                       \div tDegreesPerSecond) % UINT16_MODULUS
        tMillisForCompleteMove ==
            IF TRUE
            THEN (tMillis * 2) % UINT16_MODULUS ELSE tMillis
    IN startEaseToD(w, o, aDegreeOrMicrosecond, tMillisForCompleteMove,
                    aStartUpdateByInterrupt, aMillis)

\* a start by speed that takes the single time for every call style
startEaseToDoublesNever(w, o, aDegreeOrMicrosecond, aDegreesPerSecond, aStartUpdateByInterrupt, aMillis) ==
    LET s == w.servo[o]
        tDegreesPerSecond == IF aDegreesPerSecond = 0 THEN 1 ELSE aDegreesPerSecond
        tTargetDegree ==
            IF aDegreeOrMicrosecond >= THRESHOLD_VALUE_FOR_INTERPRETING_VALUE_AS_MICROSECONDS
            THEN MicrosecondsToDegree(s, aDegreeOrMicrosecond)
            ELSE aDegreeOrMicrosecond
        tCurrentDegree == MicrosecondsOrUnitsToDegree(s, s.mCurrentMicrosecondsOrUnits)
        tMillis == ((Abs(tTargetDegree - tCurrentDegree) * MILLIS_IN_ONE_SECOND)
                       \div tDegreesPerSecond) % UINT16_MODULUS
    IN startEaseToD(w, o, aDegreeOrMicrosecond, tMillis,
                    aStartUpdateByInterrupt, aMillis)

startEaseTo(w, o, aDegreeOrMicrosecond, aDegreesPerSecond, aStartUpdateByInterrupt, aMillis) ==
    LET s == w.servo[o]
        tDegreesPerSecond == IF aDegreesPerSecond = 0 THEN 1 ELSE aDegreesPerSecond
        tTargetDegree ==
            IF aDegreeOrMicrosecond >= THRESHOLD_VALUE_FOR_INTERPRETING_VALUE_AS_MICROSECONDS
            THEN MicrosecondsToDegree(s, aDegreeOrMicrosecond)
            ELSE aDegreeOrMicrosecond
        tCurrentDegree == MicrosecondsOrUnitsToDegree(s, s.mCurrentMicrosecondsOrUnits)
        tMillis == ((Abs(tTargetDegree - tCurrentDegree) * MILLIS_IN_ONE_SECOND)
                       \div tDegreesPerSecond) % UINT16_MODULUS
        tMillisForCompleteMove ==
            IF CallStyle(s.mEasingType) = CALL_STYLE_BOUNCING_OUT_IN
            THEN (tMillis * 2) % UINT16_MODULUS ELSE tMillis
    IN startEaseToD(w, o, aDegreeOrMicrosecond, tMillisForCompleteMove,
                    aStartUpdateByInterrupt, aMillis)

isOneServoMoving(w) ==
    \E i \in Slots : /\ i <= w.maxIdx
                     /\ w.arr[i] # NULL
                     /\ w.servo[w.arr[i]].mServoMoves

\* a stop() that looks for moving channels before it clears its own flag
stopLooksBeforeClearing(w, o) ==
    LET w1 == [w EXCEPT !.servo[o].mServoMoves = FALSE] IN
    IF ~isOneServoMoving(w) THEN disableServoEasingInterrupt(w1) ELSE w1

\* a stop() that disables the trigger whatever the other channels do
stopDisablesAlways(w, o) ==
    disableServoEasingInterrupt([w EXCEPT !.servo[o].mServoMoves = FALSE])

stop(w, o) ==
    LET w1 == [w EXCEPT !.servo[o].mServoMoves = FALSE] IN
    IF ~isOneServoMoving(w1) THEN disableServoEasingInterrupt(w1) ELSE w1

continueWithInterrupts(w, o) ==
    enableServoEasingInterrupt([w EXCEPT !.servo[o].mServoMoves = TRUE])

\* a continueWithoutInterrupts() that plans the rest of the move anew from the
\* current position
continueWithoutInterruptsFromCurrent(w, o) ==
    LET s == w.servo[o] IN
    [w EXCEPT !.servo[o].mServoMoves = TRUE,
              !.servo[o].mStartMicrosecondsOrUnits = s.mCurrentMicrosecondsOrUnits,
              !.servo[o].mDeltaMicrosecondsOrUnits =
                  s.mEndMicrosecondsOrUnits - s.mCurrentMicrosecondsOrUnits]

continueWithoutInterrupts(w, o) ==
    [w EXCEPT !.servo[o].mServoMoves = TRUE]

(* --------------------------- easing library ---------------------------- *)
\* factors are exact fractions <<numerator, denominator>>
QuadraticEaseIn(aFactorOfTimeCompletion) ==
    <<aFactorOfTimeCompletion[1] * aFactorOfTimeCompletion[1],
      aFactorOfTimeCompletion[2] * aFactorOfTimeCompletion[2]>>

callEasingFunction(aEasingType, aFactorOfTimeCompletion) ==
    IF aEasingType % (EASE_TYPE_MASK + 1) = EASE_QUADRATIC_IN
    THEN QuadraticEaseIn(aFactorOfTimeCompletion)
    ELSE <<0, 1>>

OneMinus(f) == <<f[2] - f[1], f[2]>>

Half(f) == <<f[1], 2 * f[2]>>

\* a factor that takes the bouncing call style for the in-out call style
FactorOfMovementCompletionBounceAsInOut(aEasingType, e, d) ==
    LET tCallStyle == IF CallStyle(aEasingType) = CALL_STYLE_BOUNCING_OUT_IN
                      THEN CALL_STYLE_IN_OUT ELSE CallStyle(aEasingType) IN
    IF tCallStyle = CALL_STYLE_DIRECT
    THEN callEasingFunction(aEasingType, <<e, d>>)
    ELSE IF tCallStyle = CALL_STYLE_OUT
    THEN OneMinus(callEasingFunction(aEasingType, <<d - e, d>>))
    ELSE IF 2 * e <= d
    THEN IF tCallStyle = CALL_STYLE_IN_OUT
         THEN Half(callEasingFunction(aEasingType, <<2 * e, d>>))
         ELSE IF tCallStyle = CALL_STYLE_BOUNCING_OUT_IN
         THEN OneMinus(callEasingFunction(aEasingType, <<d - 2 * e, d>>))
         ELSE <<0, 1>>
    ELSE IF tCallStyle = CALL_STYLE_IN_OUT
         THEN OneMinus(Half(callEasingFunction(aEasingType, <<2 * d - 2 * e, d>>)))
         ELSE IF tCallStyle = CALL_STYLE_BOUNCING_OUT_IN
         THEN OneMinus(callEasingFunction(aEasingType, <<2 * e - d, d>>))
         ELSE <<0, 1>>

\* tFactorOfMovementCompletion of update() for elapsed time e of duration d
FactorOfMovementCompletion(aEasingType, e, d) ==
    LET tCallStyle == CallStyle(aEasingType) IN
    IF tCallStyle = CALL_STYLE_DIRECT
    THEN callEasingFunction(aEasingType, <<e, d>>)
    ELSE IF tCallStyle = CALL_STYLE_OUT
    THEN OneMinus(callEasingFunction(aEasingType, <<d - e, d>>))
    ELSE IF 2 * e <= d
    THEN IF tCallStyle = CALL_STYLE_IN_OUT
         THEN Half(callEasingFunction(aEasingType, <<2 * e, d>>))
         ELSE IF tCallStyle = CALL_STYLE_BOUNCING_OUT_IN
         THEN OneMinus(callEasingFunction(aEasingType, <<d - 2 * e, d>>))
         ELSE <<0, 1>>
    ELSE IF tCallStyle = CALL_STYLE_IN_OUT
         THEN OneMinus(Half(callEasingFunction(aEasingType, <<2 * d - 2 * e, d>>)))
         ELSE IF tCallStyle = CALL_STYLE_BOUNCING_OUT_IN
         THEN OneMinus(callEasingFunction(aEasingType, <<2 * e - d, d>>))
         ELSE <<0, 1>>

\* tNewMicrosecondsOrUnits of update() while the move is in progress
\* a linear formula that counts the completed part back from the end position
NewMicrosecondsOrUnitsFromEnd(s, tMillisSinceStart) ==
    s.mEndMicrosecondsOrUnits
       - CDiv(s.mDeltaMicrosecondsOrUnits * tMillisSinceStart, s.mMillisForCompleteMove)

NewMicrosecondsOrUnits(s, tMillisSinceStart) ==
    IF s.mEasingType = EASE_LINEAR
    THEN s.mStartMicrosecondsOrUnits
           + CDiv(s.mDeltaMicrosecondsOrUnits * tMillisSinceStart, s.mMillisForCompleteMove)
    ELSE LET f == FactorOfMovementCompletion(s.mEasingType, tMillisSinceStart,
                                             s.mMillisForCompleteMove)
         IN s.mStartMicrosecondsOrUnits + CDiv(s.mDeltaMicrosecondsOrUnits * f[1], f[2])

(* ------------------------------- the tick ------------------------------ *)
\* what the application's handler does when it is called for object o: it is
\* recorded with what it observes, and a "restart" handler starts a new move
TargetPositionReachedHandler(w, o, aMillis) ==
    LET s == w.servo[o]
        w1 == [w EXCEPT !.calls[o] =
                 Append(@, [moves |-> s.mServoMoves,
                            atEnd |-> s.mCurrentMicrosecondsOrUnits = s.mEndMicrosecondsOrUnits,
                            pulses |-> Len(w.out[o])])]
    IN IF s.TargetPositionReachedHandler = "restart"
       THEN startEaseToD(w1, o, RestartDegree, RestartMillis, TRUE, aMillis)
       ELSE w1

\* a completion test that needs the elapsed time to exceed a duration above 0
MoveIsCompleteLate(s, aMillis) ==
    \/ aMillis < s.mMillisAtStartMove
    \/ s.mMillisForCompleteMove = 0
    \/ aMillis - s.mMillisAtStartMove > s.mMillisForCompleteMove

\* tMillisSinceStart >= mMillisForCompleteMove, with the uint32_t difference:
\* a start time ahead of the clock (only an uninitialised one is) wraps to a
\* value above every 16 bit duration
MoveIsComplete(s, aMillis) ==
    \/ aMillis < s.mMillisAtStartMove
    \/ aMillis - s.mMillisAtStartMove >= s.mMillisForCompleteMove

\* update() that, for an object that does not move, writes the current
\* position again (aWritesWhenStopped) or calls the handler (aCallsWhenStopped)
updateVariant(w, o, aMillis, aWritesWhenStopped, aCallsWhenStopped) ==
    LET s == w.servo[o]
        tMillisSinceStart == aMillis - s.mMillisAtStartMove
    IN
    IF ~s.mServoMoves
    THEN LET w1 == IF aWritesWhenStopped
                   THEN writeMicrosecondsOrUnits(w, o, s.mCurrentMicrosecondsOrUnits)
                   ELSE w
             w2 == IF aCallsWhenStopped /\ s.TargetPositionReachedHandler # "NULL"
                   THEN TargetPositionReachedHandler(w1, o, aMillis) ELSE w1
         IN [w2 EXCEPT !.ret = TRUE]
    ELSE IF MoveIsComplete(s, aMillis)
    THEN LET w1 == writeMicrosecondsOrUnits(w, o, s.mEndMicrosecondsOrUnits)
             w2 == [w1 EXCEPT !.servo[o].mServoMoves = FALSE]
             w3 == IF s.TargetPositionReachedHandler # "NULL"
                   THEN TargetPositionReachedHandler(w2, o, aMillis) ELSE w2
         IN [w3 EXCEPT !.ret = ~w3.servo[o].mServoMoves]
    ELSE LET tNewMicrosecondsOrUnits == NewMicrosecondsOrUnits(s, tMillisSinceStart)
             w1 == IF tNewMicrosecondsOrUnits # s.mCurrentMicrosecondsOrUnits
                   THEN writeMicrosecondsOrUnits(w, o, tNewMicrosecondsOrUnits)
                   ELSE w
         IN [w1 EXCEPT !.ret = FALSE]

updateWritesWhenStopped(w, o, aMillis) == updateVariant(w, o, aMillis, TRUE, FALSE)

updateCallsWhenStopped(w, o, aMillis) == updateVariant(w, o, aMillis, FALSE, TRUE)

\* update() that returns true at the end of a move whatever the handler did
updateReturnsTrueAtEnd(w, o, aMillis) ==
    LET w1 == updateVariant(w, o, aMillis, FALSE, FALSE) IN
    IF w.servo[o].mServoMoves /\ MoveIsComplete(w.servo[o], aMillis)
    THEN [w1 EXCEPT !.ret = TRUE] ELSE w1

update(w, o, aMillis) ==
    LET s == w.servo[o]
        tMillisSinceStart == aMillis - s.mMillisAtStartMove
    IN
    IF ~s.mServoMoves THEN [w EXCEPT !.ret = TRUE]
    ELSE IF MoveIsComplete(s, aMillis)
    THEN LET w1 == writeMicrosecondsOrUnits(w, o, s.mEndMicrosecondsOrUnits)
             w2 == [w1 EXCEPT !.servo[o].mServoMoves = FALSE]
             w3 == IF s.TargetPositionReachedHandler # "NULL"
                   THEN TargetPositionReachedHandler(w2, o, aMillis) ELSE w2
         IN [w3 EXCEPT !.ret = ~w3.servo[o].mServoMoves]
    ELSE LET tNewMicrosecondsOrUnits == NewMicrosecondsOrUnits(s, tMillisSinceStart)
             w1 == IF tNewMicrosecondsOrUnits # s.mCurrentMicrosecondsOrUnits
                   THEN writeMicrosecondsOrUnits(w, o, tNewMicrosecondsOrUnits)
                   ELSE w
         IN [w1 EXCEPT !.ret = FALSE]

RECURSIVE updateAllLoopShortCircuit(_, _, _, _, _, _)
\* a loop that no longer calls update() once a channel was found moving
updateAllLoopShortCircuit(w, i, tAllServosStopped, aMillis, aSlot, aStep) ==
    IF i > w.maxIdx THEN [w EXCEPT !.ret = tAllServosStopped]
    ELSE IF w.arr[i] = NULL \/ ~tAllServosStopped
    THEN updateAllLoopShortCircuit(w, i + 1, tAllServosStopped, aMillis, aSlot, aStep)
    ELSE LET w1 == update(w, w.arr[i], IF i >= aSlot THEN aMillis + aStep ELSE aMillis)
         IN updateAllLoopShortCircuit(w1, i + 1, w1.ret /\ tAllServosStopped,
                                      aMillis, aSlot, aStep)

RECURSIVE updateAllLoop(_, _, _, _, _, _)
\* the loop of updateAllServos() from slot i on; millis() reads aMillis before
\* slot aSlot is updated and aMillis + aStep from then on
updateAllLoop(w, i, tAllServosStopped, aMillis, aSlot, aStep) ==
    IF i > w.maxIdx THEN [w EXCEPT !.ret = tAllServosStopped]
    ELSE IF w.arr[i] = NULL
    THEN updateAllLoop(w, i + 1, tAllServosStopped, aMillis, aSlot, aStep)
    ELSE LET w1 == update(w, w.arr[i], IF i >= aSlot THEN aMillis + aStep ELSE aMillis)
         IN updateAllLoop(w1, i + 1, w1.ret /\ tAllServosStopped, aMillis, aSlot, aStep)

updateAllServos(w, aMillis, aSlot, aStep) ==
    updateAllLoop(w, 0, TRUE, aMillis, aSlot, aStep)

\* a handler that disables the trigger whatever updateAllServos() returned
handleServoTimerInterruptDisablesAlways(w, aMillis, aSlot, aStep) ==
    [disableServoEasingInterrupt(updateAllServos(w, aMillis, aSlot, aStep))
        EXCEPT !.ret = "void"]

handleServoTimerInterrupt(w, aMillis, aSlot, aStep) ==
    LET w1 == updateAllServos(w, aMillis, aSlot, aStep) IN
    IF w1.ret THEN [disableServoEasingInterrupt(w1) EXCEPT !.ret = "void"]
    ELSE [w1 EXCEPT !.ret = "void"]

(* ----------------------------- list functions -------------------------- *)
RECURSIVE setEaseToLoop(_, _, _, _, _, _)
\* the loop shared by the three setEaseTo...ForAllServos(): aKind selects the
\* channel's own mSpeed ("own"), a given speed ("speed") or a duration ("millis")
setEaseToLoop(w, i, tOneServoIsMoving, aKind, aValue, aMillis) ==
    IF i > w.maxIdx THEN [w EXCEPT !.ret = tOneServoIsMoving]
    ELSE IF w.arr[i] = NULL
    THEN setEaseToLoop(w, i + 1, tOneServoIsMoving, aKind, aValue, aMillis)
    ELSE LET o == w.arr[i]
             w1 == IF aKind = "millis"
                   THEN startEaseToD(w, o, w.nextPos[i], aValue, FALSE, aMillis)
                   ELSE startEaseTo(w, o, w.nextPos[i],
                                    IF aKind = "own" THEN w.servo[o].mSpeed ELSE aValue,
                                    FALSE, aMillis)
         IN setEaseToLoop(w1, i + 1, w1.ret \/ tOneServoIsMoving, aKind, aValue, aMillis)

\* a loop that starts from tOneServoIsMoving = true
setEaseToForAllServosFromTrue(w, aKind, aValue, aMillis) ==
    setEaseToLoop(w, 0, TRUE, aKind, aValue, aMillis)

setEaseToForAllServos(w, aKind, aValue, aMillis) ==
    setEaseToLoop(w, 0, FALSE, aKind, aValue, aMillis)

stopAllServos(w) ==
    [w EXCEPT !.servo = [o \in Servos |->
        IF \E i \in Slots : i <= w.maxIdx /\ w.arr[i] = o
        THEN [w.servo[o] EXCEPT !.mServoMoves = FALSE] ELSE w.servo[o]]]

\* loops that stop after the first slot
ReallyMovesInFirstSlot(w, i) ==
    i = 0 /\ w.arr[i] # NULL /\ w.servo[w.arr[i]].mServoMoves

\* a channel the loops of synchronizeAllServosAndStartInterrupt() process
ReallyMoves(w, i) == w.arr[i] # NULL /\ w.servo[w.arr[i]].mServoMoves

\* a first loop that keeps the start time of the lowest moving slot
SyncScanKeepsLowestSlot(w, i, acc) ==
    LET tMoving == {k \in Slots : k <= w.maxIdx /\ ReallyMoves(w, k)} IN
    IF tMoving = {} THEN acc
    ELSE LET tLow == CHOOSE k \in tMoving : \A j \in tMoving : k <= j
             tLong == CHOOSE k \in tMoving : \A j \in tMoving :
                         w.servo[w.arr[k]].mMillisForCompleteMove
                            >= w.servo[w.arr[j]].mMillisForCompleteMove
         IN <<w.servo[w.arr[tLong]].mMillisForCompleteMove,
              w.servo[w.arr[tLow]].mMillisAtStartMove>>

RECURSIVE SyncScan(_, _, _)
\* first loop: <<tMaxMillisForCompleteMove, tMillisAtStartMove>> after slots 0..i
SyncScan(w, i, acc) ==
    IF i > w.maxIdx THEN acc
    ELSE IF ReallyMoves(w, i)
    THEN LET s == w.servo[w.arr[i]] IN
         SyncScan(w, i + 1,
                  <<IF s.mMillisForCompleteMove > acc[1]
                    THEN s.mMillisForCompleteMove ELSE acc[1],
                    s.mMillisAtStartMove>>)
    ELSE SyncScan(w, i + 1, acc)

synchronizeAllServosAndStartInterrupt(w, aStartUpdateByInterrupt) ==
    LET t == SyncScan(w, 0, <<0, 0>>)
        w1 == [w EXCEPT !.servo = [o \in Servos |->
                 IF \E i \in Slots : i <= w.maxIdx /\ w.arr[i] = o /\ ReallyMoves(w, i)
                 THEN [w.servo[o] EXCEPT !.mMillisAtStartMove = t[2],
                                         !.mMillisForCompleteMove = t[1]]
                 ELSE w.servo[o]]]
    IN IF aStartUpdateByInterrupt THEN enableServoEasingInterrupt(w1) ELSE w1

(* ------------------------------ actions -------------------------------- *)
\* the state after the constructors have run
Init ==
    /\ servo \in [Servos -> StorageClasses]
    /\ ServoEasingArray = [i \in Slots |-> NULL]
    /\ sServoArrayMaxIndex = 0
    /\ ServoEasingNextPositionArray = [i \in Slots |-> 0]
    /\ sInterruptsAreActive = FALSE
    /\ now = 0
    /\ lastOp = [op |-> "init", o |-> NULL, params |-> <<>>, ret |-> "void"]
    /\ out = [o \in Servos |-> <<>>]
    /\ calls = [o \in Servos |-> <<>>]
    /\ pc = NoCall

\* a bool a function returns, as lastOp shows it
Returned(aBool) == IF aBool THEN "true" ELSE "false"

\* the world after a function that returns bool
Bool(w) == [w EXCEPT !.ret = Returned(@)]

\* the state after operation aOp on object o with the integer arguments aArg
\* has turned the world into w
Done(aOp, o, aArg, w) ==
    /\ servo' = w.servo
    /\ ServoEasingArray' = w.arr
    /\ sServoArrayMaxIndex' = w.maxIdx
    /\ ServoEasingNextPositionArray' = w.nextPos
    /\ sInterruptsAreActive' = w.irq
    /\ out' = w.out
    /\ calls' = w.calls
    /\ lastOp' = [op |-> aOp, o |-> o, params |-> aArg, ret |-> w.ret]
    /\ UNCHANGED pc

Calibrated(s) ==
    s.mServo180DegreeMicrosecondsOrUnits # s.mServo0DegreeMicrosecondsOrUnits

InRegistry(o) == \E i \in Slots : ServoEasingArray[i] = o

Attach(o) ==
    /\ Done("attach", o, <<>>, attach(World, o))
    /\ UNCHANGED now

AttachMicroseconds(o, aMicrosecondsForServo0Degree, aMicrosecondsForServo180Degree) ==
    /\ Done("attach", o, <<aMicrosecondsForServo0Degree, aMicrosecondsForServo180Degree>>,
            attachMicroseconds(World, o, aMicrosecondsForServo0Degree,
                               aMicrosecondsForServo180Degree))
    /\ UNCHANGED now

SetEasingType(o, aEasingType) ==
    /\ Done("setEasingType", o, <<aEasingType>>, setEasingType(World, o, aEasingType))
    /\ UNCHANGED now

SetTrim(o, aTrimDegrees, aDoWrite) ==
    /\ Done("setTrim", o, <<aTrimDegrees, IF aDoWrite THEN 1 ELSE 0>>,
            setTrim(World, o, aTrimDegrees, aDoWrite))
    /\ UNCHANGED now

SetReverseOperation(o, aOperateServoReverse) ==
    /\ Done("setReverseOperation", o, <<IF aOperateServoReverse THEN 1 ELSE 0>>,
            setReverseOperation(World, o, aOperateServoReverse))
    /\ UNCHANGED now

Detach(o) ==
    /\ Done("detach", o, <<>>, detach(World, o))
    /\ UNCHANGED now

Write(o, d) ==
    /\ Done("write", o, <<d>>, write(World, o, d))
    /\ UNCHANGED now

StartEaseToD(o, d, m, b) ==
    /\ Done("startEaseToD", o, <<d, m>>, Bool(startEaseToD(World, o, d, m, b, now)))
    /\ UNCHANGED now

\* MicrosecondsOrUnitsToDegree() divides by the calibration range
StartEaseTo(o, d, v, b) ==
    /\ Calibrated(servo[o])
    /\ Done("startEaseTo", o, <<d, v>>, Bool(startEaseTo(World, o, d, v, b, now)))
    /\ UNCHANGED now

Stop(o) ==
    /\ Done("stop", o, <<>>, stop(World, o))
    /\ UNCHANGED now

ContinueWithInterrupts(o) ==
    /\ Done("continueWithInterrupts", o, <<>>, continueWithInterrupts(World, o))
    /\ UNCHANGED now

ContinueWithoutInterrupts(o) ==
    /\ Done("continueWithoutInterrupts", o, <<>>, continueWithoutInterrupts(World, o))
    /\ UNCHANGED now

SetTargetPositionReachedHandler(o, h) ==
    /\ servo[o].TargetPositionReachedHandler # h
    /\ Done("setTargetPositionReachedHandler", o, <<>>,
            [World EXCEPT !.servo[o].TargetPositionReachedHandler = h])
    /\ UNCHANGED now

\* a degree is converted by DegreeToMicrosecondsOrUnits() and the result is
\* converted back by MicrosecondsOrUnitsToDegree(); params holds the degree,
\* the pulse width and the degree that comes back. The second conversion
\* divides by the calibration range.
ConvertThereAndBack(o, aDegree) ==
    /\ Calibrated(servo[o])
    /\ LET tMicrosecondsOrUnits == DegreeToMicrosecondsOrUnits(servo[o], aDegree)
       IN Done("MicrosecondsOrUnitsToDegree", o,
               <<aDegree, tMicrosecondsOrUnits,
                 MicrosecondsOrUnitsToDegree(servo[o], tMicrosecondsOrUnits)>>,
               World)
    /\ UNCHANGED now

\* the clock millis() of the example runs on by d
AdvanceExample(d) ==
    /\ now + d <= ExampleMaxNow
    /\ now' = now + d
    /\ lastOp' = [op |-> "advance", o |-> NULL, params |-> <<>>, ret |-> "void"]
    /\ out' = [o \in Servos |-> <<>>]
    /\ calls' = [o \in Servos |-> <<>>]
    /\ UNCHANGED <<servo, ServoEasingArray, sServoArrayMaxIndex,
                   ServoEasingNextPositionArray, sInterruptsAreActive, pc>>

(* ----- foreground calls executed statement by statement --------------- *)
\* the fields update() computes the position of a moving channel from
MoveFields(s) ==
    <<s.mDeltaMicrosecondsOrUnits, s.mStartMicrosecondsOrUnits, s.mEndMicrosecondsOrUnits,
      s.mMillisForCompleteMove, s.mMillisAtStartMove>>

\* a step of the foreground inside a call: no pulse, no handler, no return yet
Statement ==
    /\ lastOp' = [op |-> "statement", o |-> pc.o, params |-> <<pc.line>>, ret |-> "void"]
    /\ out' = [o \in Servos |-> <<>>]
    /\ calls' = [o \in Servos |-> <<>>]
    /\ UNCHANGED <<now, ServoEasingArray, sServoArrayMaxIndex>>

\* startEaseToD() on an attached channel is entered and runs up to line 986:
\* the entry of ServoEasingNextPositionArray and the end position are set
StartEaseToDEnter(o, d, m, b) ==
    /\ pc = NoCall
    /\ servo[o].mServoIndex # INVALID_SERVO
    /\ pc' = [fn |-> "startEaseToD", line |-> 988, o |-> o, d |-> d, m |-> m, b |-> b,
              t |-> 0, r |-> FALSE, old |-> MoveFields(servo[o])]
    /\ IF servo[o].mEasingType # EASE_DUMMY_MOVE
       THEN /\ ServoEasingNextPositionArray' =
                  [ServoEasingNextPositionArray EXCEPT ![servo[o].mServoIndex] = d]
            /\ servo' = [servo EXCEPT ![o].mEndMicrosecondsOrUnits =
                                          DegreeToMicrosecondsOrUnits(servo[o], d)]
       ELSE UNCHANGED <<ServoEasingNextPositionArray, servo>>
    /\ lastOp' = [op |-> "statement", o |-> o, params |-> <<971>>, ret |-> "void"]
    /\ out' = [x \in Servos |-> <<>>]
    /\ calls' = [x \in Servos |-> <<>>]
    /\ UNCHANGED <<now, ServoEasingArray, sServoArrayMaxIndex, sInterruptsAreActive>>

\* the next statement of the startEaseToD() in progress, up to its return
StartEaseToDStep ==
    /\ pc.fn = "startEaseToD"
    /\ LET o == pc.o IN
       CASE pc.line = 988 ->
              /\ pc' = [pc EXCEPT !.t = servo[o].mCurrentMicrosecondsOrUnits, !.line = 989]
              /\ Statement
              /\ UNCHANGED <<servo, ServoEasingNextPositionArray, sInterruptsAreActive>>
         [] pc.line = 989 ->
              /\ servo' = [servo EXCEPT ![o].mDeltaMicrosecondsOrUnits =
                                            servo[o].mEndMicrosecondsOrUnits - pc.t]
              /\ pc' = [pc EXCEPT !.line = 992]
              /\ Statement
              /\ UNCHANGED <<ServoEasingNextPositionArray, sInterruptsAreActive>>
         [] pc.line = 992 ->
              /\ servo' = [servo EXCEPT ![o].mMillisForCompleteMove = pc.m]
              /\ pc' = [pc EXCEPT !.line = 993]
              /\ Statement
              /\ UNCHANGED <<ServoEasingNextPositionArray, sInterruptsAreActive>>
         [] pc.line = 993 ->
              /\ servo' = [servo EXCEPT ![o].mStartMicrosecondsOrUnits = pc.t]
              /\ pc' = [pc EXCEPT !.line = 995]
              /\ Statement
              /\ UNCHANGED <<ServoEasingNextPositionArray, sInterruptsAreActive>>
         [] pc.line = 995 ->
              /\ servo' = IF CallStyle(servo[o].mEasingType) = CALL_STYLE_BOUNCING_OUT_IN
                          THEN [servo EXCEPT ![o].mEndMicrosecondsOrUnits = pc.t]
                          ELSE servo
              /\ pc' = [pc EXCEPT !.line = 1002]
              /\ Statement
              /\ UNCHANGED <<ServoEasingNextPositionArray, sInterruptsAreActive>>
         [] pc.line = 1002 ->
              /\ servo' = [servo EXCEPT ![o].mMillisAtStartMove = now]
              /\ pc' = [pc EXCEPT !.line = 1010]
              /\ Statement
              /\ UNCHANGED <<ServoEasingNextPositionArray, sInterruptsAreActive>>
         [] pc.line = 1010 ->
              /\ pc' = [pc EXCEPT !.r = ~servo[o].mServoMoves, !.line = 1013]
              /\ Statement
              /\ UNCHANGED <<servo, ServoEasingNextPositionArray, sInterruptsAreActive>>
         [] pc.line = 1013 ->
              /\ servo' = [servo EXCEPT ![o].mServoMoves = TRUE]
              /\ pc' = [pc EXCEPT !.line = 1014]
              /\ Statement
              /\ UNCHANGED <<ServoEasingNextPositionArray, sInterruptsAreActive>>
         [] pc.line = 1014 ->
              /\ sInterruptsAreActive' = (sInterruptsAreActive \/ pc.b)
              /\ pc' = NoCall
              /\ lastOp' = [op |-> "startEaseToD", o |-> o, params |-> <<pc.d, pc.m>>,
                            ret |-> Returned(pc.r)]
              /\ out' = [x \in Servos |-> <<>>]
              /\ calls' = [x \in Servos |-> <<>>]
              /\ UNCHANGED <<now, servo, ServoEasingArray, sServoArrayMaxIndex,
                             ServoEasingNextPositionArray>>

\* stop() is entered and clears mServoMoves (line 1022)
StopEnter(o) ==
    /\ pc = NoCall
    /\ servo' = [servo EXCEPT ![o].mServoMoves = FALSE]
    /\ pc' = [NoCall EXCEPT !.fn = "stop", !.line = 1023, !.o = o]
    /\ lastOp' = [op |-> "statement", o |-> o, params |-> <<1022>>, ret |-> "void"]
    /\ out' = [x \in Servos |-> <<>>]
    /\ calls' = [x \in Servos |-> <<>>]
    /\ UNCHANGED <<now, ServoEasingArray, sServoArrayMaxIndex,
                   ServoEasingNextPositionArray, sInterruptsAreActive>>

\* the stop() in progress looks for moving channels, disables the periodic
\* trigger if there is none, and returns (lines 1023-1027)
StopReturn ==
    /\ pc.fn = "stop"
    /\ sInterruptsAreActive' = (sInterruptsAreActive /\ isOneServoMoving(World))
    /\ pc' = NoCall
    /\ lastOp' = [op |-> "stop", o |-> pc.o, params |-> <<>>, ret |-> "void"]
    /\ out' = [x \in Servos |-> <<>>]
    /\ calls' = [x \in Servos |-> <<>>]
    /\ UNCHANGED <<now, servo, ServoEasingArray, sServoArrayMaxIndex,
                   ServoEasingNextPositionArray>>

\* setEaseToForAllServosSynchronizeAndStartInterrupt(aDegreesPerSecond) is
\* entered and executes its first statement, setEaseToForAllServos() (line 1766)
SetEaseToForAllServosSynchronizeEnter(aDegreesPerSecond) ==
    /\ pc = NoCall
    /\ LET w == Bool(setEaseToForAllServos(World, "speed", aDegreesPerSecond, now)) IN
       /\ servo' = w.servo
       /\ ServoEasingArray' = w.arr
       /\ sServoArrayMaxIndex' = w.maxIdx
       /\ ServoEasingNextPositionArray' = w.nextPos
       /\ sInterruptsAreActive' = w.irq
       /\ out' = w.out
       /\ calls' = w.calls
       /\ lastOp' = [op |-> "setEaseToForAllServos", o |-> NULL,
                     params |-> <<aDegreesPerSecond>>, ret |-> w.ret]
    /\ pc' = [NoCall EXCEPT !.fn = "setEaseToForAllServosSynchronizeAndStartInterrupt",
                            !.line = 1767, !.m = aDegreesPerSecond]
    /\ UNCHANGED now

\* its second statement, synchronizeAllServosAndStartInterrupt() (line 1767),
\* and the return
SetEaseToForAllServosSynchronizeReturn ==
    /\ pc.fn = "setEaseToForAllServosSynchronizeAndStartInterrupt"
    /\ LET w == synchronizeAllServosAndStartInterrupt(World, TRUE) IN
       /\ servo' = w.servo
       /\ ServoEasingArray' = w.arr
       /\ sServoArrayMaxIndex' = w.maxIdx
       /\ ServoEasingNextPositionArray' = w.nextPos
       /\ sInterruptsAreActive' = w.irq
       /\ out' = w.out
       /\ calls' = w.calls
       /\ lastOp' = [op |-> "synchronizeAllServosAndStartInterrupt", o |-> NULL,
                     params |-> <<servo[1].mMillisForCompleteMove,
                                  servo[2].mMillisForCompleteMove>>,
                     ret |-> "void"]
    /\ pc' = NoCall
    /\ UNCHANGED now

\* a foreground call of update() on one object
Update(o) ==
    /\ Done("update", o, <<>>, Bool(update(World, o, now)))
    /\ UNCHANGED now

\* a foreground call of updateAllServos(); the clock advances by d just before
\* slot k is updated
UpdateAllServos(k, d) ==
    /\ now + d <= MaxNow
    /\ Done("updateAllServos", NULL, <<k, d>>, Bool(updateAllServos(World, now, k, d)))
    /\ now' = now + d

\* the periodic trigger fires
TimerInterrupt(k, d) ==
    /\ sInterruptsAreActive
    /\ now + d <= MaxNow
    /\ Done("handleServoTimerInterrupt", NULL, <<k, d>>,
            handleServoTimerInterrupt(World, now, k, d))
    /\ now' = now + d

SetEaseToForAllServos(aKind, aValue) ==
    /\ Done("setEaseToForAllServos", NULL, <<aValue>>,
            Bool(setEaseToForAllServos(World, aKind, aValue, now)))
    /\ UNCHANGED now

SynchronizeAllServosAndStartInterrupt(b) ==
    /\ Done("synchronizeAllServosAndStartInterrupt", NULL,
            <<servo[1].mMillisForCompleteMove, servo[2].mMillisForCompleteMove>>,
            synchronizeAllServosAndStartInterrupt(World, b))
    /\ UNCHANGED now

StopAllServos ==
    /\ Done("stopAllServos", NULL, <<>>, stopAllServos(World))
    /\ UNCHANGED now

\* one refresh interval passes between two operations
Advance ==
    /\ now + REFRESH_INTERVAL_MILLIS <= MaxNow
    /\ now' = now + REFRESH_INTERVAL_MILLIS
    /\ lastOp' = [op |-> "advance", o |-> NULL, params |-> <<>>, ret |-> "void"]
    /\ out' = [o \in Servos |-> <<>>]
    /\ calls' = [o \in Servos |-> <<>>]
    /\ UNCHANGED <<servo, ServoEasingArray, sServoArrayMaxIndex,
                   ServoEasingNextPositionArray, sInterruptsAreActive, pc>>

(* ----- one channel: the move state machine of an attached object ------- *)
\* object 1 is attached once and driven through the interface of a channel,
\* object 2 is never used
InitChannel ==
    /\ Init
    /\ servo[2] = Constructed(0, 0)

NextChannel ==
    \/ ~InRegistry(1) /\ Attach(1)
    \/ \E d \in Degrees : Write(1, d)
    \/ \E d \in Degrees, m \in MillisChoices, b \in BOOLEAN : StartEaseToD(1, d, m, b)
    \/ \E d \in Degrees, v \in SpeedChoices, b \in BOOLEAN : StartEaseTo(1, d, v, b)
    \/ Stop(1)
    \/ ContinueWithInterrupts(1)
    \/ ContinueWithoutInterrupts(1)
    \/ \E h \in HandlerKinds : SetTargetPositionReachedHandler(1, h)
    \/ Update(1)
    \/ UpdateAllServos(0, 0)
    \/ TimerInterrupt(0, 0)
    \/ Advance

SpecChannel == InitChannel /\ [][NextChannel]_vars

(* ----- two channels: the list functions and the periodic trigger ------- *)
\* both objects are attached once; moves are started one by one or for all
\* servos, synchronised, stopped and advanced by ticks
NextSync ==
    \/ \E o \in Servos : ~InRegistry(o) /\ Attach(o)
    \/ \E o \in Servos, m \in ShortMillisChoices, b \in BOOLEAN :
          StartEaseToD(o, 0, m, b)
    \/ \E o \in Servos : Stop(o)
    \/ \E m \in ShortMillisChoices : SetEaseToForAllServos("millis", m)
    \/ \E b \in BOOLEAN : SynchronizeAllServosAndStartInterrupt(b)
    \/ StopAllServos
    \/ \E k \in Slots, d \in MidTickSteps : UpdateAllServos(k, d)
    \/ \E k \in Slots, d \in MidTickSteps : TimerInterrupt(k, d)
    \/ Advance

SpecSync == Init /\ [][NextSync]_vars

\* registry-wide starts: two channels with different entries of
\* ServoEasingNextPositionArray, started together by every overload
NextAll ==
    \/ \E o \in Servos : ~InRegistry(o) /\ Attach(o)
    \/ Write(2, FarDegree)
    \/ \E o \in Servos : Stop(o)
    \/ SetEaseToForAllServos("own", 0)
    \/ \E v \in SpeedChoices : SetEaseToForAllServos("speed", v)
    \/ \E m \in MillisChoices : SetEaseToForAllServos("millis", m)
    \/ UpdateAllServos(0, 0)
    \/ Advance

SpecAll == Init /\ [][NextAll]_vars

(* ----- one channel that is attached and detached again ----------------- *)
\* object 1 is attached, detached and attached again, and every operation of
\* a channel is called on it in either condition
NextDetached ==
    \/ ~InRegistry(1) /\ Attach(1)
    \/ Detach(1)
    \/ \E d \in Degrees : Write(1, d)
    \/ \E d \in Degrees, m \in MillisChoices, b \in BOOLEAN : StartEaseToD(1, d, m, b)
    \/ \E d \in Degrees, v \in SpeedChoices, b \in BOOLEAN : StartEaseTo(1, d, v, b)
    \/ Stop(1)
    \/ ContinueWithInterrupts(1)
    \/ ContinueWithoutInterrupts(1)
    \/ Update(1)
    \/ TimerInterrupt(0, 0)
    \/ Advance

SpecDetached == InitChannel /\ [][NextDetached]_vars

(* ----- the registry: attach() and detach() in any order ---------------- *)
\* both objects are attached and detached in any order, an attached object
\* again included, so that the registry fills up; positions are written and
\* moves are started in between
NextRegistry ==
    \/ \E o \in Servos : Attach(o)
    \/ \E o \in Servos : Detach(o)
    \/ \E o \in Servos : Write(o, FarDegree)
    \/ InRegistry(1) /\ StartEaseToD(1, FarDegree, RestartMillis, FALSE)
    \/ Advance

SpecRegistry == Init /\ [][NextRegistry]_vars

(* ----- one channel started by speed, the speed 0 included -------------- *)
NextSpeed ==
    \/ ~InRegistry(1) /\ Attach(1)
    \/ \E d \in Degrees : Write(1, d)
    \/ \E d \in Degrees, v \in SlowSpeedChoices, b \in BOOLEAN : StartEaseTo(1, d, v, b)
    \/ Stop(1)
    \/ Update(1)
    \/ Advance

SpecSpeed == InitChannel /\ [][NextSpeed]_vars

(* ----- one channel with a calibration: the unit conversions ------------ *)
\* object 1 is attached with one of the calibrations, detached and attached
\* again; degrees are written and converted to pulse widths and back
NextConvert ==
    \/ \E c \in CalibrationChoices : ~InRegistry(1) /\ AttachMicroseconds(1, c[1], c[2])
    \/ Detach(1)
    \/ \E d \in Degrees : Write(1, d)
    \/ \E d \in AllDegrees : ConvertThereAndBack(1, d)
    \/ Advance

SpecConvert == InitChannel /\ [][NextConvert]_vars

(* ----- one channel: a move by speed observed over its whole duration --- *)
\* object 1 is attached with the default calibration, put to 0 or 90 degree,
\* started by speed and updated while the clock runs for two seconds
NextExample ==
    \/ ~InRegistry(1) /\ Attach(1)
    \/ \E d \in ExampleDegrees : Write(1, d)
    \/ \E d \in ExampleDegrees, v \in ExampleSpeeds : StartEaseTo(1, d, v, FALSE)
    \/ Update(1)
    \/ \E d \in ExampleSteps : AdvanceExample(d)

SpecExample == InitChannel /\ [][NextExample]_vars

(* ----- one channel with an easing type: the bouncing call style -------- *)
\* object 1 is attached, given an easing type, started by duration and
\* updated while the clock runs
NextBounce ==
    \/ ~InRegistry(1) /\ Attach(1)
    \/ \E e \in EasingTypeChoices : SetEasingType(1, e)
    \/ \E d \in Degrees : Write(1, d)
    \/ \E d \in Degrees, m \in MillisChoices : StartEaseToD(1, d, m, FALSE)
    \/ Update(1)
    \/ Advance

SpecBounce == InitChannel /\ [][NextBounce]_vars

(* ----- the foreground interleaved with the periodic trigger ------------ *)
\* startEaseToD() and stop() of object 1 are executed statement by statement,
\* and between any two statements the periodic trigger may fire and the clock
\* may run on; the handler of the trigger runs to its end before the
\* foreground resumes. Between two calls the foreground also polls with
\* updateAllServos().
NextInterleave ==
    \/ pc = NoCall /\ ~InRegistry(1) /\ Attach(1)
    \/ \E d \in Degrees : StartEaseToDEnter(1, d, RestartMillis, TRUE)
    \/ StartEaseToDStep
    \/ StopEnter(1)
    \/ StopReturn
    \/ pc = NoCall /\ UpdateAllServos(0, 0)
    \/ TimerInterrupt(0, 0)
    \/ Advance

SpecInterleave == InitChannel /\ [][NextInterleave]_vars

(* ----- the synchronized start of all servos and the periodic trigger --- *)
\* both objects are attached and get different targets; a move of object 1
\* enables the periodic trigger; setEaseToForAllServosSynchronizeAndStart-
\* Interrupt() is executed statement by statement, and between its statements
\* the periodic trigger may fire and the clock may run on
NextStartAll ==
    \/ \E o \in Servos : pc = NoCall /\ ~InRegistry(o) /\ Attach(o)
    \/ pc = NoCall /\ Write(2, FarDegree)
    \/ pc = NoCall /\ StartEaseToD(1, 0, RestartMillis, TRUE)
    \/ \E v \in SpeedChoices : SetEaseToForAllServosSynchronizeEnter(v)
    \/ SetEaseToForAllServosSynchronizeReturn
    \/ TimerInterrupt(0, 0)
    \/ Advance

SpecStartAll == Init /\ [][NextStartAll]_vars

(* ----- one channel with trim and reverse ------------------------------- *)
\* object 1 is attached, trimmed and reversed at any time, written, moved and
\* advanced by its own update()
NextTrim ==
    \/ ~InRegistry(1) /\ Attach(1)
    \/ \E t \in TrimDegreeChoices, b \in BOOLEAN : SetTrim(1, t, b)
    \/ \E b \in BOOLEAN : SetReverseOperation(1, b)
    \/ \E d \in Degrees : Write(1, d)
    \/ \E d \in Degrees : StartEaseToD(1, d, RestartMillis, FALSE)
    \/ Update(1)
    \/ Advance

SpecTrim == InitChannel /\ [][NextTrim]_vars

(* ----- two channels whose moves are paused, continued, synchronised ---- *)
\* a short move is started on channel 1 and a long one on channel 2; between
\* start and completion channel 1 is stopped and continued, and both are
\* synchronised and advanced by ticks of the foreground
NextFrame ==
    \/ \E o \in Servos : ~InRegistry(o) /\ Attach(o)
    \/ StartEaseToD(1, 0, REFRESH_INTERVAL_MILLIS, FALSE)
    \/ StartEaseToD(2, 0, RestartMillis, FALSE)
    \/ Stop(1)
    \/ ContinueWithoutInterrupts(1)
    \/ SynchronizeAllServosAndStartInterrupt(FALSE)
    \/ UpdateAllServos(0, 0)
    \/ Advance

SpecFrame == Init /\ [][NextFrame]_vars

(* ----- one channel with every kind of easing type ---------------------- *)
\* object 1 is attached, given an easing type of any kind while it is at rest,
\* written, started by duration and by speed, also while it moves, and updated
\* while the clock runs
NextSelector ==
    \/ ~InRegistry(1) /\ Attach(1)
    \/ \E e \in SelectorChoices : ~servo[1].mServoMoves /\ SetEasingType(1, e)
    \/ \E d \in Degrees : Write(1, d)
    \/ \E d \in Degrees : StartEaseToD(1, d, RestartMillis, FALSE)
    \/ \E v \in FastSpeedChoices : StartEaseTo(1, FarDegree, v, FALSE)
    \/ Update(1)
    \/ Advance

SpecSelector == InitChannel /\ [][NextSelector]_vars

(* ----- one channel with a handler, attached and detached --------------- *)
\* object 1 is given a handler, attached, started, detached and continued, and
\* updated by the foreground while the clock runs
NextCallback ==
    \/ ~InRegistry(1) /\ Attach(1)
    \/ Detach(1)
    \/ \E h \in HandlerKinds : SetTargetPositionReachedHandler(1, h)
    \/ \E d \in Degrees : StartEaseToD(1, d, RestartMillis, FALSE)
    \/ ContinueWithoutInterrupts(1)
    \/ Update(1)
    \/ Advance

SpecCallback == InitChannel /\ [][NextCallback]_vars

(* ----- two channels and the array of next positions -------------------- *)
\* both objects are attached and detached, written and started one by one and
\* for all servos, stopped, synchronised and ticked; object 1 is also given
\* the dummy easing type and a handler that starts a move
NextNextPosition ==
    \/ \E o \in Servos : ~InRegistry(o) /\ Attach(o)
    \/ Detach(2)
    \/ Write(2, FarDegree)
    \/ \E d \in Degrees :
          ~servo[1].mServoMoves /\ StartEaseToD(1, d, RestartMillis, FALSE)
    \/ \E e \in DummyChoices : ~servo[1].mServoMoves /\ SetEasingType(1, e)
    \/ SetTargetPositionReachedHandler(1, "restart")
    \/ Stop(2)
    \/ (\A o \in Servos : ~servo[o].mServoMoves)
          /\ SetEaseToForAllServos("millis", RestartMillis)
    \/ SynchronizeAllServosAndStartInterrupt(FALSE)
    \/ UpdateAllServos(0, 0)
    \/ Advance

SpecNextPosition == InitChannel /\ [][NextNextPosition]_vars

\* the clock advances by aStep, up to LinearMaxNow
AdvanceLinear(aStep) ==
    /\ now + aStep <= LinearMaxNow
    /\ now' = now + aStep
    /\ lastOp' = [op |-> "advance", o |-> NULL, params |-> <<>>, ret |-> "void"]
    /\ out' = [o \in Servos |-> <<>>]
    /\ calls' = [o \in Servos |-> <<>>]
    /\ UNCHANGED <<servo, ServoEasingArray, sServoArrayMaxIndex,
                   ServoEasingNextPositionArray, sInterruptsAreActive, pc>>

\* one channel whose linear moves run undisturbed: it is written and started
\* only at rest, and polled with update() at every cadence LinearSteps allows
NextLinear ==
    \/ ~InRegistry(1) /\ Attach(1)
    \/ \E d \in Degrees : ~servo[1].mServoMoves /\ Write(1, d)
    \/ \E d \in Degrees, m \in LinearMillisChoices :
          ~servo[1].mServoMoves /\ StartEaseToD(1, d, m, FALSE)
    \/ Update(1)
    \/ \E d \in LinearSteps : AdvanceLinear(d)

SpecLinear == InitChannel /\ [][NextLinear]_vars

(* ----- blocking calls: the foreground sleeps and polls ------------------ *)
\* the last clock value a blocking call can need: a move started at MaxNow
\* ends RestartMillis later and is seen by the poll after that
WaitMaxNow == MaxNow + RestartMillis + REFRESH_INTERVAL_MILLIS

UpdateAllLoopCalls ==
    {"updateAndWaitForAllServosToStop",
     "synchronizeAllServosStartAndWaitForAllServosToStop",
     "delayAndUpdateAndWaitForAllServosToStop"}

\* which channels move, as the flags pc.old keeps from the entry of the call
MovesAtEntry(w) ==
    <<IF w.servo[1].mServoMoves THEN 1 ELSE 0,
      IF w.servo[2].mServoMoves THEN 1 ELSE 0, 0, 0, 0>>

\* a sleep of delayAndUpdateAndWaitForAllServosToStop() that always lasts one period
delayOfOneRoundWholePeriod(aMillisDelay) == REFRESH_INTERVAL_MILLIS

\* the sleep of one round of delayAndUpdateAndWaitForAllServosToStop()
delayOfOneRound(aMillisDelay) ==
    IF aMillisDelay > REFRESH_INTERVAL_MILLIS THEN REFRESH_INTERVAL_MILLIS
    ELSE aMillisDelay

\* a blocking call is entered and executes what precedes its loop: easeToD()
\* starts the move, synchronizeAllServosStartAndWaitForAllServosToStop()
\* synchronizes, the two others go straight to the loop
BlockingCallEnter(aFunction, o, aDegree, aMillis, aTerminate) ==
    /\ pc = NoCall
    /\ now <= MaxNow
    /\ LET w == IF aFunction = "easeToD"
                THEN startEaseToD(World, o, aDegree, aMillis, FALSE, now)
                ELSE IF aFunction = "synchronizeAllServosStartAndWaitForAllServosToStop"
                THEN synchronizeAllServosAndStartInterrupt(World, FALSE)
                ELSE World
       IN /\ servo' = w.servo
          /\ ServoEasingArray' = w.arr
          /\ sServoArrayMaxIndex' = w.maxIdx
          /\ ServoEasingNextPositionArray' = w.nextPos
          /\ sInterruptsAreActive' = w.irq
          /\ out' = w.out
          /\ calls' = w.calls
          /\ pc' = [NoCall EXCEPT !.fn = aFunction, !.o = o, !.m = aMillis,
                                  !.t = aMillis, !.b = aTerminate,
                                  !.old = MovesAtEntry(w)]
    /\ lastOp' = [op |-> "statement", o |-> o, params |-> <<aMillis>>, ret |-> "void"]
    /\ UNCHANGED now

\* one round of the loop of the blocking call in progress: the sleep, then
\* update() of the channel (easeToD) or updateAllServos(), then the return or
\* the next round. pc.t is the delay still to sleep, pc.d the time slept
BlockingCallStep ==
    /\ pc.fn \in UpdateAllLoopCalls \cup {"easeToD"}
    /\ LET tDelays == pc.fn = "delayAndUpdateAndWaitForAllServosToStop"
           tSleep == IF tDelays THEN delayOfOneRound(pc.t) ELSE REFRESH_INTERVAL_MILLIS
       IN /\ now + tSleep <= WaitMaxNow
          /\ now' = now + tSleep
          /\ \E w \in {IF pc.fn = "easeToD" THEN update(World, pc.o, now + tSleep)
                        ELSE updateAllServos(World, now + tSleep, 0, 0)} :
             \E tReturns \in {IF tDelays
                               THEN pc.t <= REFRESH_INTERVAL_MILLIS \/ (w.ret /\ pc.b)
                               ELSE w.ret} :
                /\ servo' = w.servo
                /\ ServoEasingArray' = w.arr
                /\ sServoArrayMaxIndex' = w.maxIdx
                /\ ServoEasingNextPositionArray' = w.nextPos
                /\ sInterruptsAreActive' = w.irq
                /\ out' = w.out
                /\ calls' = w.calls
                /\ pc' = IF tReturns THEN NoCall
                         ELSE [pc EXCEPT !.t = IF tDelays THEN @ - REFRESH_INTERVAL_MILLIS
                                               ELSE @,
                                         !.d = @ + tSleep]
                /\ lastOp' = IF tReturns
                             THEN [op |-> pc.fn, o |-> pc.o,
                                   params |-> <<pc.m, pc.d + tSleep>>,
                                   ret |-> IF tDelays THEN Returned(w.ret) ELSE "void"]
                             ELSE [op |-> "statement", o |-> pc.o,
                                   params |-> <<pc.d + tSleep>>, ret |-> "void"]

\* two channels moved without the periodic trigger and without handlers, and
\* the four blocking calls
NextWait ==
    \/ \E o \in Servos : pc = NoCall /\ ~InRegistry(o) /\ Attach(o)
    \/ pc = NoCall /\ now <= MaxNow /\ StartEaseToD(1, FarDegree, RestartMillis, FALSE)
    \/ pc = NoCall /\ now <= MaxNow /\ StartEaseToD(2, 0, REFRESH_INTERVAL_MILLIS, FALSE)
    \/ BlockingCallEnter("updateAndWaitForAllServosToStop", NULL, 0, 0, FALSE)
    \/ BlockingCallEnter("synchronizeAllServosStartAndWaitForAllServosToStop", NULL, 0, 0, FALSE)
    \/ \E d \in Degrees : BlockingCallEnter("easeToD", 1, d, RestartMillis, FALSE)
    \/ \E m \in WaitDelayChoices, b \in BOOLEAN :
          BlockingCallEnter("delayAndUpdateAndWaitForAllServosToStop", NULL, 0, m, b)
    \/ BlockingCallStep

\* the foreground that is inside a blocking call keeps executing it; the clock
\* advances by the sleeps of the calls
SpecWait == InitChannel /\ [][NextWait]_vars /\ WF_vars(BlockingCallStep)

(* ----- clipDegreeSpecial() ---------------------------------------------- *)
clipDegreeSpecial(aDegreeToClip) ==
    IF aDegreeToClip # 0 THEN aDegreeToClip
    ELSE IF aDegreeToClip < 218 THEN 180
    ELSE 0

\* clipDegreeSpecial(aDegreeToClip) is called; lastOp shows argument and result
ClipDegreeSpecial(aDegreeToClip) ==
    /\ Done("clipDegreeSpecial", NULL,
            <<aDegreeToClip, clipDegreeSpecial(aDegreeToClip)>>, World)
    /\ UNCHANGED now

NextClip ==
    \E x \in ClipInputs : ClipDegreeSpecial(x)

SpecClip == InitChannel /\ [][NextClip]_vars

(* ============================== properties ============================= *)
\* slot i of the registry, as the loops over the registry see it
Occupied(i) == i <= sServoArrayMaxIndex /\ ServoEasingArray[i] # NULL

\* object o is in a slot the loops visit
Attached(o) == \E i \in Slots : Occupied(i) /\ ServoEasingArray[i] = o

AttachedMoving(o) == Attached(o) /\ servo[o].mServoMoves

\* the operations that are a tick
TickOps == {"update", "updateAllServos", "handleServoTimerInterrupt"}

\* the elapsed time at clock aMillis has reached the duration of o's move; the
\* code subtracts unsigned, so a start time ahead of the clock has reached it
ElapsedReachesDuration(o, aMillis) ==
    \/ aMillis < servo[o].mMillisAtStartMove
    \/ aMillis - servo[o].mMillisAtStartMove >= servo[o].mMillisForCompleteMove

(* ------------------------------- C1 ------------------------------------ *)
\* the longest duration among the attached channels that move
MaxMillisForCompleteMove ==
    LET tDurations == {servo[o].mMillisForCompleteMove : o \in {x \in Servos : AttachedMoving(x)}}
    IN CHOOSE m \in tDurations : \A n \in tDurations : n <= m

\* C1: after synchronizeAllServosAndStartInterrupt() every attached channel that
\* was moving has the largest duration the moving channels had before the call,
\* and every channel that was not moving, and every channel that is not
\* attached, has all its fields unchanged
C1_SynchronizedToLongestDuration ==
    [][lastOp'.op = "synchronizeAllServosAndStartInterrupt" =>
         \A o \in Servos :
             IF AttachedMoving(o)
             THEN servo'[o].mMillisForCompleteMove = MaxMillisForCompleteMove
             ELSE servo'[o] = servo[o]]_vars

\* two attached moving channels with different durations have been synchronized
C1_Witness ==
    /\ lastOp.op = "synchronizeAllServosAndStartInterrupt"
    /\ AttachedMoving(1) /\ AttachedMoving(2)
    /\ lastOp.params[1] # lastOp.params[2]
    /\ servo[1].mMillisForCompleteMove = servo[2].mMillisForCompleteMove
    /\ servo[1].mMillisForCompleteMove \in {lastOp.params[1], lastOp.params[2]}

(* ------------------------------- C2 ------------------------------------ *)
\* what synchronizeAllServosAndStartInterrupt() establishes for two channels
Synchronized(a, b) ==
    /\ a # b /\ AttachedMoving(a) /\ AttachedMoving(b)
    /\ servo[a].mMillisAtStartMove = servo[b].mMillisAtStartMove
    /\ servo[a].mMillisForCompleteMove = servo[b].mMillisForCompleteMove

\* C2: two synchronized channels complete in the same execution of
\* updateAllServos(): after every tick either both still move or neither does,
\* however the clock advances
C2_CompleteInTheSameTick ==
    [][lastOp'.op \in {"updateAllServos", "handleServoTimerInterrupt"} =>
         \A a, b \in Servos :
             Synchronized(a, b) => servo'[a].mServoMoves = servo'[b].mServoMoves]_vars

(* ------------------------------- C3 ------------------------------------ *)
\* object o is updated by the step, with the clock reading now
UpdatedAtNow(o) ==
    \/ lastOp'.op = "update" /\ lastOp'.o = o
    \/ /\ lastOp'.op \in {"updateAllServos", "handleServoTimerInterrupt"}
       /\ lastOp'.params[2] = 0
       /\ Attached(o)

\* C3: for a linear move with end position B and duration D, the first update
\* that finds elapsed >= D sets the current position to exactly B and clears
\* isMoving, whatever updates came before
C3_ExactLanding ==
    [][\A o \in Servos :
          (/\ UpdatedAtNow(o)
           /\ servo[o].mServoMoves
           /\ servo[o].mEasingType = EASE_LINEAR
           /\ servo[o].mServoIndex # INVALID_SERVO
           /\ ElapsedReachesDuration(o, now))
          => /\ servo'[o].mCurrentMicrosecondsOrUnits = servo[o].mEndMicrosecondsOrUnits
             /\ out'[o] = <<TrimAndReverse(servo[o], servo[o].mEndMicrosecondsOrUnits)>>
             /\ servo[o].TargetPositionReachedHandler # "restart" => ~servo'[o].mServoMoves]_vars

\* an update at elapsed = D of a move over a distance has landed on the end
C3_Witness ==
    /\ lastOp.op = "update"
    /\ ~servo[1].mServoMoves
    /\ servo[1].mMillisForCompleteMove > 0
    /\ now - servo[1].mMillisAtStartMove = servo[1].mMillisForCompleteMove
    /\ servo[1].mDeltaMicrosecondsOrUnits # 0
    /\ servo[1].mCurrentMicrosecondsOrUnits = servo[1].mEndMicrosecondsOrUnits
    /\ out[1] = <<servo[1].mEndMicrosecondsOrUnits>>

(* ------------------------------- C4 ------------------------------------ *)
\* C4: with a handler registered, the tick that first finds elapsed >= duration
\* calls it exactly once and leaves the channel stopped (unless the handler
\* itself starts a move); a tick of a channel that does not move, a tick
\* before the duration has elapsed, and every other operation never call it
C4_HandlerCalledOncePerMove ==
    [][\A o \in Servos :
          IF UpdatedAtNow(o)
          THEN IF /\ servo[o].mServoMoves
                  /\ ElapsedReachesDuration(o, now)
                  /\ servo[o].TargetPositionReachedHandler # "NULL"
               THEN /\ Len(calls'[o]) = 1
                    /\ servo[o].TargetPositionReachedHandler = "count"
                          => ~servo'[o].mServoMoves
               ELSE calls'[o] = <<>>
          ELSE calls'[o] = <<>>]_vars

\* a move whose completion is seen late (a tick was skipped) has called the
\* handler once, after the final write and with isMoving cleared
C4_Witness ==
    /\ lastOp.op = "update"
    /\ servo[1].TargetPositionReachedHandler = "count"
    /\ servo[1].mMillisForCompleteMove > 0
    /\ now - servo[1].mMillisAtStartMove > servo[1].mMillisForCompleteMove
    /\ calls[1] = <<[moves |-> FALSE, atEnd |-> TRUE, pulses |-> 1]>>

(* ------------------------------- C5 ------------------------------------ *)
\* C5: stop() is idempotent: from every reachable state, stop() twice on a
\* channel leaves the state a single stop() leaves (channel fields, registry,
\* trigger flag), and the channel does not move after either
C5_StopIdempotent ==
    \A o \in Servos :
        LET w1 == stop(World, o)
            w2 == stop(w1, o)
        IN /\ w2 = w1
           /\ ~w1.servo[o].mServoMoves
           /\ ~w2.servo[o].mServoMoves

\* stop() has stopped a channel while the trigger ran and another one moves,
\* and a second stop() of it is possible
C5_Witness ==
    /\ lastOp.op = "stop"
    /\ sInterruptsAreActive
    /\ ~servo[lastOp.o].mServoMoves
    /\ \E p \in Servos : p # lastOp.o /\ AttachedMoving(p)
    /\ stop(World, lastOp.o).servo = servo

(* ------------------------------- C6 ------------------------------------ *)
\* C6: stop() clears isMoving, changes no current position and writes no
\* pulse; it disables the trigger when no attached channel moves after the
\* call, and leaves the trigger state unchanged when one still does
C6_StopEffect ==
    [][lastOp'.op = "stop" =>
         /\ ~servo'[lastOp'.o].mServoMoves
         /\ \A p \in Servos :
               /\ servo'[p].mCurrentMicrosecondsOrUnits = servo[p].mCurrentMicrosecondsOrUnits
               /\ out'[p] = <<>>
               /\ p # lastOp'.o => servo'[p] = servo[p]
         /\ sInterruptsAreActive' =
               IF \E p \in Servos : p # lastOp'.o /\ AttachedMoving(p)
               THEN sInterruptsAreActive ELSE FALSE]_vars

\* the last moving channel was stopped in the middle of its way, and the
\* trigger is off
C6_Witness ==
    /\ lastOp.op = "stop"
    /\ Attached(lastOp.o)
    /\ ~sInterruptsAreActive
    /\ \A p \in Servos : ~servo[p].mServoMoves
    /\ now - servo[lastOp.o].mMillisAtStartMove < servo[lastOp.o].mMillisForCompleteMove

(* ------------------------------- C7 ------------------------------------ *)
\* C7 as stated: every channel that moves has a duration above 0
C7_MovingHasPositiveDuration ==
    \A o \in Servos : servo[o].mServoMoves => servo[o].mMillisForCompleteMove > 0

\* C7: every channel that moves has a duration of 0 or more, and 0 occurs:
\* startEaseToD() on an attached channel stores the duration it is given, 0
\* included, and startEaseTo() to the position the channel is at stores 0
C7_MovingHasTheDurationGiven ==
    /\ \A o \in Servos : servo[o].mServoMoves => servo[o].mMillisForCompleteMove >= 0
    /\ (lastOp.op \in {"startEaseToD", "startEaseTo"}
            /\ servo[lastOp.o].mServoIndex # INVALID_SERVO)
         => /\ servo[lastOp.o].mServoMoves
            /\ lastOp.op = "startEaseToD"
                  => servo[lastOp.o].mMillisForCompleteMove = lastOp.params[2]
            /\ (lastOp.op = "startEaseTo" /\ servo[lastOp.o].mDeltaMicrosecondsOrUnits = 0)
                  => servo[lastOp.o].mMillisForCompleteMove = 0

\* an attached channel moves with the duration 0 it was started with
C7_Witness ==
    /\ lastOp.op = "startEaseToD"
    /\ lastOp.params[2] = 0
    /\ Attached(lastOp.o)
    /\ servo[lastOp.o].mServoMoves
    /\ servo[lastOp.o].mMillisForCompleteMove = 0

C9_ReturnsTrueWhenMoving ==
    [][(lastOp'.op \in {"startEaseToD", "startEaseTo"}
            /\ servo[lastOp'.o].mServoIndex # INVALID_SERVO)
         => lastOp'.ret = Returned(servo[lastOp'.o].mServoMoves)]_vars

\* C9: on an attached channel startEaseToD() and startEaseTo() return false
\* exactly when a move was in progress (the move is pre-empted), and true when
\* the channel was idle
C9_ReturnsFalseWhenMoving ==
    [][(lastOp'.op \in {"startEaseToD", "startEaseTo"}
            /\ servo[lastOp'.o].mServoIndex # INVALID_SERVO)
         => lastOp'.ret = Returned(~servo[lastOp'.o].mServoMoves)]_vars

\* a start has pre-empted a move that had not reached its end, and returned false
C9_Witness ==
    /\ lastOp.op = "startEaseToD"
    /\ Attached(lastOp.o)
    /\ lastOp.ret = "false"
    /\ servo[lastOp.o].mServoMoves
    /\ servo[lastOp.o].mMillisAtStartMove = now
    /\ servo[lastOp.o].mStartMicrosecondsOrUnits \notin
           {DEFAULT_PULSE_WIDTH, servo[lastOp.o].mServo0DegreeMicrosecondsOrUnits,
            servo[lastOp.o].mServo180DegreeMicrosecondsOrUnits}

(* ------------------------------- C10 ----------------------------------- *)
\* every occupied slot's channel has been started at the clock's time from
\* where it is toward the slot's entry of ServoEasingNextPositionArray
StartedTowardNextPositions ==
    /\ ServoEasingNextPositionArray' = ServoEasingNextPositionArray
    /\ \A i \in Slots : Occupied(i) =>
          LET o == ServoEasingArray[i] IN
          /\ servo'[o].mServoMoves
          /\ servo'[o].mEndMicrosecondsOrUnits =
                 DegreeToMicrosecondsOrUnits(servo[o], ServoEasingNextPositionArray[i])
          /\ servo'[o].mStartMicrosecondsOrUnits = servo[o].mCurrentMicrosecondsOrUnits
          /\ servo'[o].mMillisAtStartMove = now
    /\ \A o \in Servos : ~Attached(o) => servo'[o] = servo[o]

ChannelOps ==
    {"write", "startEaseToD", "startEaseTo", "stop",
     "continueWithInterrupts", "continueWithoutInterrupts", "detach"}

\* C11: every operation called on a detached channel (mServoIndex =
\* INVALID_SERVO) is a no-op: it leaves the fields of the channel, the registry,
\* the array of next positions and the state of the periodic trigger unchanged
\* and writes no pulse
C11_DetachedOperationsAreNoOps ==
    [][\A o \in Servos :
          (/\ lastOp'.op \in ChannelOps
           /\ lastOp'.o = o
           /\ servo[o].mServoIndex = INVALID_SERVO)
          => /\ servo'[o] = servo[o]
             /\ ServoEasingArray' = ServoEasingArray
             /\ sServoArrayMaxIndex' = sServoArrayMaxIndex
             /\ ServoEasingNextPositionArray' = ServoEasingNextPositionArray
             /\ sInterruptsAreActive' = sInterruptsAreActive
             /\ out'[o] = <<>>]_vars

(* ------------------------------- C12 ----------------------------------- *)
\* C12 as stated: the value startEaseToD() returns on a detached channel tells
\* the rejection apart from a start on an attached channel that was idle: the
\* start on the idle attached channel returns true, the rejection false
C12_DetachedStartIsToldApart ==
    [][\A o \in Servos :
          (lastOp'.op = "startEaseToD" /\ lastOp'.o = o /\ ~servo[o].mServoMoves)
          => (lastOp'.ret = "false" <=> servo[o].mServoIndex = INVALID_SERVO)]_vars

\* C12: startEaseToD() on a detached channel changes nothing and returns true,
\* the value it returns for a start on an attached channel that was idle; it
\* returns false only when it replaces the move of an attached channel
C12_DetachedStartReturnsTrue ==
    [][\A o \in Servos :
          (lastOp'.op = "startEaseToD" /\ lastOp'.o = o)
          => /\ lastOp'.ret = "false"
                   <=> (servo[o].mServoIndex # INVALID_SERVO /\ servo[o].mServoMoves)
             /\ servo[o].mServoIndex = INVALID_SERVO
                   => /\ lastOp'.ret = "true"
                      /\ servo'[o] = servo[o]
                      /\ sInterruptsAreActive' = sInterruptsAreActive]_vars

\* a channel that was attached and detached has been asked to start a move
\* over a distance and has returned true
C12_Witness ==
    /\ lastOp.op = "startEaseToD"
    /\ lastOp.ret = "true"
    /\ servo[1].mServoIndex = INVALID_SERVO
    /\ Calibrated(servo[1])
    /\ ~servo[1].mServoMoves
    /\ lastOp.params[2] > 0
    /\ DegreeToMicrosecondsOrUnits(servo[1], lastOp.params[1]) # servo[1].mCurrentMicrosecondsOrUnits

(* ------------------------------- C13 ----------------------------------- *)
\* no slot of the registry is free
RegistryIsFull == \A i \in Slots : ServoEasingArray[i] # NULL

\* the free slot with the lowest index
LowestFreeSlot ==
    CHOOSE i \in Slots :
        /\ ServoEasingArray[i] = NULL
        /\ \A j \in Slots : ServoEasingArray[j] = NULL => i <= j

\* C13: attach() on a registry with no free slot returns INVALID_SERVO, leaves
\* every slot and sServoArrayMaxIndex unchanged and leaves the channel with
\* mServoIndex = INVALID_SERVO; otherwise it puts the channel into the free
\* slot with the lowest index
C13_AttachOnFullRegistry ==
    [][\A o \in Servos :
          (lastOp'.op = "attach" /\ lastOp'.o = o)
          => IF RegistryIsFull
             THEN /\ lastOp'.ret = "INVALID_SERVO"
                  /\ ServoEasingArray' = ServoEasingArray
                  /\ sServoArrayMaxIndex' = sServoArrayMaxIndex
                  /\ servo'[o].mServoIndex = INVALID_SERVO
             ELSE /\ lastOp'.ret # "INVALID_SERVO"
                  /\ ServoEasingArray' = [ServoEasingArray EXCEPT ![LowestFreeSlot] = o]
                  /\ servo'[o].mServoIndex = LowestFreeSlot
                  /\ sServoArrayMaxIndex' =
                        IF LowestFreeSlot > sServoArrayMaxIndex
                        THEN LowestFreeSlot ELSE sServoArrayMaxIndex]_vars

\* attach() has been refused on a registry that both objects fill
C13_Witness ==
    /\ lastOp.op = "attach"
    /\ lastOp.ret = "INVALID_SERVO"
    /\ RegistryIsFull
    /\ \A o \in Servos : InRegistry(o)
    /\ servo[lastOp.o].mServoIndex = INVALID_SERVO

C15_RoundTripIsExact ==
    \A o \in Servos :
        (/\ lastOp.op = "MicrosecondsOrUnitsToDegree"
         /\ lastOp.o = o
         /\ servo[o].mServo180DegreeMicrosecondsOrUnits > servo[o].mServo0DegreeMicrosecondsOrUnits
         /\ lastOp.params[1] \in AllDegrees)
        => lastOp.params[3] = lastOp.params[1]

(* ------------------------------- C16 ----------------------------------- *)
\* channel o has the calibration 544..2400 and linear easing
ExampleChannel(o) ==
    /\ servo[o].mServoIndex # INVALID_SERVO
    /\ servo[o].mServo0DegreeMicrosecondsOrUnits = 544
    /\ servo[o].mServo180DegreeMicrosecondsOrUnits = 2400
    /\ servo[o].mEasingType = EASE_LINEAR

\* channel o performs the move startEaseTo(90, 60) plans from rest at 0 degree
ExampleMove(o) ==
    /\ ExampleChannel(o)
    /\ servo[o].mServoMoves
    /\ servo[o].mStartMicrosecondsOrUnits = DegreeToMicrosecondsOrUnits(servo[o], 0)
    /\ servo[o].mEndMicrosecondsOrUnits = DegreeToMicrosecondsOrUnits(servo[o], 90)
    /\ servo[o].mDeltaMicrosecondsOrUnits =
          servo[o].mEndMicrosecondsOrUnits - servo[o].mStartMicrosecondsOrUnits
    /\ servo[o].mMillisForCompleteMove = 1500
    /\ now >= servo[o].mMillisAtStartMove

\* C16: for a channel calibrated 544..2400 that rests at 0 degree with linear
\* easing, startEaseTo(90, 60) plans a duration of 1500 ms; an update() at
\* elapsed = 750 ms yields a current angle within 1 degree of 45; an update()
\* at any elapsed >= 1500 ms yields the current angle 90 and isMoving() false
C16_EndToEndExample ==
    [][\A o \in Servos :
          /\ (/\ lastOp'.op = "startEaseTo" /\ lastOp'.o = o
              /\ lastOp'.params = <<90, 60>>
              /\ ExampleChannel(o)
              /\ ~servo[o].mServoMoves
              /\ getCurrentAngle(servo[o]) = 0)
             => /\ servo'[o].mMillisForCompleteMove = 1500
                /\ servo'[o].mServoMoves
                /\ servo'[o].mEndMicrosecondsOrUnits = DegreeToMicrosecondsOrUnits(servo[o], 90)
          /\ (/\ lastOp'.op = "update" /\ lastOp'.o = o
              /\ ExampleMove(o)
              /\ now - servo[o].mMillisAtStartMove = 750)
             => Abs(getCurrentAngle(servo'[o]) - 45) <= 1
          /\ (/\ lastOp'.op = "update" /\ lastOp'.o = o
              /\ ExampleMove(o)
              /\ now - servo[o].mMillisAtStartMove >= 1500)
             => /\ getCurrentAngle(servo'[o]) = 90
                /\ ~servo'[o].mServoMoves]_vars

\* the example move has been updated at elapsed = 750 ms and the channel is
\* half way
C16_Witness ==
    /\ lastOp.op = "update"
    /\ ExampleMove(1)
    /\ now - servo[1].mMillisAtStartMove = 750
    /\ out[1] # <<>>
    /\ getCurrentAngle(servo[1]) = 45

(* ------------------------------- C17 ----------------------------------- *)
\* update() finds channel o in a move with the quadratic curve in the
\* bouncing call style
UpdatesBounce(o) ==
    /\ lastOp'.op = "update" /\ lastOp'.o = o
    /\ servo[o].mServoIndex # INVALID_SERVO
    /\ servo[o].mServoMoves
    /\ servo[o].mEasingType = EASE_QUADRATIC_BOUNCING
    /\ servo[o].mMillisForCompleteMove > 0
    /\ now >= servo[o].mMillisAtStartMove

\* C17 as stated: the position update() computes at elapsed = D/2 of a bouncing
\* move is no more than one unit away from the start position
C17_BounceIsAtStartAtHalfTime ==
    [][\A o \in Servos :
          (/\ UpdatesBounce(o)
           /\ 2 * (now - servo[o].mMillisAtStartMove) = servo[o].mMillisForCompleteMove)
          => Abs(servo'[o].mCurrentMicrosecondsOrUnits
                   - servo[o].mStartMicrosecondsOrUnits) <= 1]_vars

\* C17: a bouncing move is started with the end position at the start
\* position; the position update() computes at elapsed = D/2 is the start
\* position plus the whole delta, the turning point, and the update at
\* elapsed >= D puts the channel to the end position
C17_BounceTurnsAtHalfTime ==
    [][\A o \in Servos :
          /\ (/\ lastOp'.op = "startEaseToD" /\ lastOp'.o = o
              /\ servo[o].mServoIndex # INVALID_SERVO
              /\ servo[o].mEasingType = EASE_QUADRATIC_BOUNCING)
             => /\ servo'[o].mEndMicrosecondsOrUnits = servo'[o].mStartMicrosecondsOrUnits
                /\ servo'[o].mDeltaMicrosecondsOrUnits =
                      DegreeToMicrosecondsOrUnits(servo[o], lastOp'.params[1])
                         - servo'[o].mStartMicrosecondsOrUnits
          /\ (/\ UpdatesBounce(o)
              /\ 2 * (now - servo[o].mMillisAtStartMove) = servo[o].mMillisForCompleteMove)
             => servo'[o].mCurrentMicrosecondsOrUnits =
                   servo[o].mStartMicrosecondsOrUnits + servo[o].mDeltaMicrosecondsOrUnits
          /\ (/\ UpdatesBounce(o)
              /\ now - servo[o].mMillisAtStartMove >= servo[o].mMillisForCompleteMove)
             => servo'[o].mCurrentMicrosecondsOrUnits = servo[o].mEndMicrosecondsOrUnits]_vars

\* a bouncing move over a distance has been updated at half of its duration
\* and the channel is at the turning point, the whole delta from the start
C17_Witness ==
    /\ lastOp.op = "update"
    /\ servo[1].mServoMoves
    /\ servo[1].mEasingType = EASE_QUADRATIC_BOUNCING
    /\ servo[1].mMillisForCompleteMove > 0
    /\ 2 * (now - servo[1].mMillisAtStartMove) = servo[1].mMillisForCompleteMove
    /\ servo[1].mEndMicrosecondsOrUnits = servo[1].mStartMicrosecondsOrUnits
    /\ Abs(servo[1].mDeltaMicrosecondsOrUnits) > 1
    /\ servo[1].mCurrentMicrosecondsOrUnits =
          servo[1].mStartMicrosecondsOrUnits + servo[1].mDeltaMicrosecondsOrUnits

(* ------------------------------- C18 ----------------------------------- *)
\* what one call of update() at the clock reading now does to object o
UpdatedOnce(o) == update(World, o, now)

\* C18: updateAllServos() calls update() exactly once for every occupied slot
\* of 0..sServoArrayMaxIndex, whatever the calls for the slots before it
\* returned, and for no other object, and it returns true exactly if every one
\* of these calls returned true; on an empty registry it returns true
C18_UpdatesEveryOccupiedSlotOnce ==
    [][(lastOp'.op = "updateAllServos" /\ lastOp'.params[2] = 0) =>
          /\ \A o \in Servos :
                IF Attached(o)
                THEN /\ servo'[o] = UpdatedOnce(o).servo[o]
                     /\ out'[o] = UpdatedOnce(o).out[o]
                     /\ calls'[o] = UpdatedOnce(o).calls[o]
                ELSE /\ servo'[o] = servo[o]
                     /\ out'[o] = <<>>
                     /\ calls'[o] = <<>>
          /\ lastOp'.ret = "true" <=> \A o \in Servos : Attached(o) => UpdatedOnce(o).ret
          /\ (\A i \in Slots : ~Occupied(i)) => lastOp'.ret = "true"]_vars

\* updateAllServos() has found the channel of slot 0 still moving and has
\* completed the move of the channel of slot 1
C18_Witness ==
    /\ lastOp.op = "updateAllServos"
    /\ lastOp.ret = "false"
    /\ Occupied(0) /\ Occupied(1)
    /\ ServoEasingArray[0] # ServoEasingArray[1]
    /\ servo[ServoEasingArray[0]].mServoMoves
    /\ ~servo[ServoEasingArray[1]].mServoMoves
    /\ out[ServoEasingArray[1]] =
          <<servo[ServoEasingArray[1]].mEndMicrosecondsOrUnits>>

(* ------------------------------- C19 ----------------------------------- *)
\* the step is a tick: the handler of the periodic trigger or a poll
TickStep == lastOp'.op \in TickOps

\* the step sets mServoMoves of object o
SetsMoving(o) == ~servo[o].mServoMoves /\ servo'[o].mServoMoves

C20_TickSeesFieldsOfOneMove ==
    [][\A o \in Servos :
          (/\ TickStep
           /\ servo[o].mServoIndex # INVALID_SERVO
           /\ servo[o].mServoMoves
           /\ pc.fn = "startEaseToD" /\ pc.o = o)
          => \/ MoveFields(servo[o]) = pc.old
             \/ pc.line >= 1010]_vars

(* ------------------------------- C21 ----------------------------------- *)
\* C21: no tick runs between the start of the moves by
\* setEaseToForAllServosSynchronizeAndStartInterrupt() and the end of its
\* synchronization, also when the periodic trigger is already enabled: while
\* the call is in progress no tick writes a pulse for a channel or changes a
\* field of it, so no channel is advanced or completed with the duration it
\* had before the synchronization
C21_NoTickBeforeSynchronization ==
    [][(/\ lastOp'.op \in TickOps
        /\ pc.fn = "setEaseToForAllServosSynchronizeAndStartInterrupt")
       => \A o \in Servos : out'[o] = <<>> /\ servo'[o] = servo[o]]_vars

(* ------------------------------- C22 ----------------------------------- *)
\* object o is in the slot its mServoIndex names
AttachedAtIndex(o) ==
    /\ servo[o].mServoIndex \in Slots
    /\ ServoEasingArray[servo[o].mServoIndex] = o

\* C22: detach() of an attached channel frees the slot of that channel and no
\* other, leaves the channel with mServoIndex = INVALID_SERVO and not moving,
\* and does not compact: every other slot keeps its object, every other object
\* keeps all its fields, mServoIndex included, and the array of next positions
\* is unchanged
C22_DetachFreesOneSlot ==
    [][\A o \in Servos :
          (lastOp'.op = "detach" /\ lastOp'.o = o /\ AttachedAtIndex(o))
          => /\ ServoEasingArray' =
                   [ServoEasingArray EXCEPT ![servo[o].mServoIndex] = NULL]
             /\ servo'[o].mServoIndex = INVALID_SERVO
             /\ ~servo'[o].mServoMoves
             /\ \A p \in Servos \ {o} : servo'[p] = servo[p]
             /\ ServoEasingNextPositionArray' = ServoEasingNextPositionArray]_vars

\* a moving channel has been detached from slot 0 and the other channel is
\* still in slot 1, with mServoIndex = 1
C22_Witness ==
    /\ lastOp.op = "detach"
    /\ servo[lastOp.o].mServoIndex = INVALID_SERVO
    /\ servo[lastOp.o].mMillisForCompleteMove = RestartMillis
    /\ ~InRegistry(lastOp.o)
    /\ ServoEasingArray[0] = NULL
    /\ ServoEasingArray[1] \in Servos \ {lastOp.o}
    /\ servo[ServoEasingArray[1]].mServoIndex = 1
    /\ sServoArrayMaxIndex = 1

(* ------------------------------- C23 ----------------------------------- *)
\* C23: after any sequence of attach and detach operations sServoArrayMaxIndex
\* is the highest occupied slot: no occupied slot lies above it, the slot it
\* names is occupied unless it is 0, and it is below MAX_EASING_SERVOS
C23_MaxIndexIsHighestOccupied ==
    /\ \A i \in Slots : ServoEasingArray[i] # NULL => i <= sServoArrayMaxIndex
    /\ ServoEasingArray[sServoArrayMaxIndex] # NULL \/ sServoArrayMaxIndex = 0
    /\ sServoArrayMaxIndex \in 0..(MAX_EASING_SERVOS - 1)

\* the channel of the highest slot, once attached, has been detached, and
\* sServoArrayMaxIndex is back at the slot below, which is occupied
C23_Witness ==
    /\ lastOp.op = "detach"
    /\ servo[lastOp.o].mServoIndex = INVALID_SERVO
    /\ servo[lastOp.o].mCurrentMicrosecondsOrUnits = DEFAULT_PULSE_WIDTH
    /\ ServoEasingArray[0] \in Servos \ {lastOp.o}
    /\ \A i \in Slots \ {0} : ServoEasingArray[i] = NULL
    /\ sServoArrayMaxIndex = 0

(* ------------------------------- C24 ----------------------------------- *)
\* the value the output gets for the stored position of s
HandedToOutput(s) ==
    IF s.mOperateServoReverse
    THEN s.mServo180DegreeMicrosecondsOrUnits
             - (s.mCurrentMicrosecondsOrUnits + s.mTrimMicrosecondsOrUnits
                    - s.mServo0DegreeMicrosecondsOrUnits)
    ELSE s.mCurrentMicrosecondsOrUnits + s.mTrimMicrosecondsOrUnits

\* the positions a channel stores
StoredPositions(s) ==
    <<s.mCurrentMicrosecondsOrUnits, s.mEndMicrosecondsOrUnits,
      s.mStartMicrosecondsOrUnits, s.mDeltaMicrosecondsOrUnits>>

\* C24: trim and reverse are applied to the value handed to the output only:
\* after a step that wrote a pulse the pulse is the stored current position
\* with trim and reverse applied, so the stored value is the untrimmed,
\* unreversed one; write(d) on an attached channel stores the conversion of
\* d; setTrim() and setReverseOperation() change none of the stored current,
\* end and start positions and delta
C24_TrimAndReverseOnlyAtOutput ==
    [][\A o \in Servos :
          /\ out'[o] # <<>>
                => out'[o][Len(out'[o])] = HandedToOutput(servo'[o])
          /\ (lastOp'.op = "write" /\ lastOp'.o = o
                 /\ servo[o].mServoIndex # INVALID_SERVO)
                => servo'[o].mCurrentMicrosecondsOrUnits =
                       DegreeToMicrosecondsOrUnits(servo[o], lastOp'.params[1])
          /\ lastOp'.op \in {"setTrim", "setReverseOperation"}
                => StoredPositions(servo'[o]) = StoredPositions(servo[o])]_vars

\* a tick has written a pulse for a trimmed, reversed channel in the middle of
\* its move, and the pulse differs from the stored position
C24_Witness ==
    /\ lastOp.op = "update"
    /\ servo[1].mServoMoves
    /\ servo[1].mTrimMicrosecondsOrUnits # 0
    /\ servo[1].mOperateServoReverse
    /\ out[1] # <<>>
    /\ out[1][1] # servo[1].mCurrentMicrosecondsOrUnits
    /\ servo[1].mCurrentMicrosecondsOrUnits # servo[1].mStartMicrosecondsOrUnits

(* ------------------------------- C25 ----------------------------------- *)
\* end position, start position and delta of a move
MovePositions(s) ==
    <<s.mEndMicrosecondsOrUnits, s.mStartMicrosecondsOrUnits,
      s.mDeltaMicrosecondsOrUnits>>

\* duration and start time of a move
MoveTimes(s) == <<s.mMillisForCompleteMove, s.mMillisAtStartMove>>

\* C25: between the start of a move and its completion or the next start on
\* the channel, no tick, stop, continue or synchronisation changes the end
\* position, the start position or delta, and the duration and the start time
\* are changed by synchronizeAllServosAndStartInterrupt() only
C25_MoveFieldsAreFrozen ==
    [][\A o \in Servos :
          /\ (lastOp'.op # "startEaseToD" \/ lastOp'.o # o)
                => MovePositions(servo'[o]) = MovePositions(servo[o])
          /\ (/\ lastOp'.op # "synchronizeAllServosAndStartInterrupt"
              /\ lastOp'.op # "startEaseToD" \/ lastOp'.o # o)
                => MoveTimes(servo'[o]) = MoveTimes(servo[o])]_vars

\* a synchronisation has given moving channel 1 the duration of channel 2, a
\* tick in the middle of the move has moved it, and its end, start and delta
\* are those of its start from the pulse width of attach toward 0 degree
C25_Witness ==
    /\ lastOp.op \in TickOps
    /\ \A o \in Servos : AttachedMoving(o)
    /\ servo[1].mMillisForCompleteMove = RestartMillis
    /\ servo[1].mMillisAtStartMove = servo[2].mMillisAtStartMove
    /\ out[1] # <<>>
    /\ servo[1].mCurrentMicrosecondsOrUnits # servo[1].mStartMicrosecondsOrUnits
    /\ MovePositions(servo[1]) =
          <<DEFAULT_MICROSECONDS_FOR_0_DEGREE, DEFAULT_PULSE_WIDTH,
            DEFAULT_MICROSECONDS_FOR_0_DEGREE - DEFAULT_PULSE_WIDTH>>

(* ------------------------------- C26 ----------------------------------- *)
\* a start of a move on attached channel o
StartsMove(o) ==
    /\ lastOp'.op \in {"startEaseToD", "startEaseTo"} /\ lastOp'.o = o
    /\ servo[o].mServoIndex # INVALID_SERVO

\* C26 as stated: after every move start on an attached channel delta is end
\* position minus start position and the start position is the current
\* position at the moment of the start, for every easing type
C26_DeltaIsEndMinusStart ==
    [][\A o \in Servos :
          StartsMove(o)
          => /\ servo'[o].mDeltaMicrosecondsOrUnits =
                   servo'[o].mEndMicrosecondsOrUnits - servo'[o].mStartMicrosecondsOrUnits
             /\ servo'[o].mStartMicrosecondsOrUnits = servo[o].mCurrentMicrosecondsOrUnits]_vars

\* C26, amended: after every move start on an attached channel the start
\* position is the current position at the moment of the start, also when a
\* move is pre-empted; delta is end position minus start position for every
\* easing type but those of the bouncing call style, where the end position is
\* the start position and delta is the requested position minus the start
\* position
C26_DeltaIsEndMinusStartUnlessBouncing ==
    [][\A o \in Servos :
          StartsMove(o)
          => /\ servo'[o].mStartMicrosecondsOrUnits = servo[o].mCurrentMicrosecondsOrUnits
             /\ servo'[o].mCurrentMicrosecondsOrUnits = servo[o].mCurrentMicrosecondsOrUnits
             /\ IF CallStyle(servo[o].mEasingType) = CALL_STYLE_BOUNCING_OUT_IN
                THEN /\ servo'[o].mEndMicrosecondsOrUnits =
                           servo'[o].mStartMicrosecondsOrUnits
                     /\ servo'[o].mDeltaMicrosecondsOrUnits =
                           DegreeToMicrosecondsOrUnits(servo[o], lastOp'.params[1])
                              - servo'[o].mStartMicrosecondsOrUnits
                ELSE servo'[o].mDeltaMicrosecondsOrUnits =
                        servo'[o].mEndMicrosecondsOrUnits
                           - servo'[o].mStartMicrosecondsOrUnits]_vars

\* a move with a curve in the in-out call style has been started while the
\* channel was in the middle of a move, between the calibrated ends, and the
\* new move starts there
C26_Witness ==
    /\ lastOp.op = "startEaseToD"
    /\ lastOp.ret = "false"
    /\ servo[1].mServoIndex # INVALID_SERVO
    /\ servo[1].mEasingType = CALL_STYLE_IN_OUT + EASE_QUADRATIC_IN
    /\ servo[1].mCurrentMicrosecondsOrUnits > DEFAULT_MICROSECONDS_FOR_0_DEGREE
    /\ servo[1].mCurrentMicrosecondsOrUnits < DEFAULT_PULSE_WIDTH
    /\ servo[1].mStartMicrosecondsOrUnits = servo[1].mCurrentMicrosecondsOrUnits
    /\ servo[1].mEndMicrosecondsOrUnits = DEFAULT_MICROSECONDS_FOR_180_DEGREE
    /\ servo[1].mDeltaMicrosecondsOrUnits =
          DEFAULT_MICROSECONDS_FOR_180_DEGREE - servo[1].mCurrentMicrosecondsOrUnits

(* ------------------------------- C27 ----------------------------------- *)
\* the easing type of s has the bouncing call style
Bouncing(s) == CallStyle(s.mEasingType) = CALL_STYLE_BOUNCING_OUT_IN

\* the time startEaseTo() computes from the distance in degree and the speed
MillisForSpeed(s, aDegree, aDegreesPerSecond) ==
    (Abs(aDegree - MicrosecondsOrUnitsToDegree(s, s.mCurrentMicrosecondsOrUnits))
        * MILLIS_IN_ONE_SECOND) \div aDegreesPerSecond

\* update() finds channel o at or after the end of a bouncing move
CompletesBounce(o) ==
    /\ lastOp'.op = "update" /\ lastOp'.o = o
    /\ servo[o].mServoIndex # INVALID_SERVO
    /\ servo[o].mServoMoves
    /\ Bouncing(servo[o])
    /\ now - servo[o].mMillisAtStartMove >= servo[o].mMillisForCompleteMove

\* C27: a start with the bouncing call style stores the position of the
\* channel at the start as end position; its duration is twice the time
\* computed from the speed for startEaseTo() and the given one for
\* startEaseToD(); the update() that completes the move writes the start
\* position and leaves the channel there, at rest
C27_BounceReturnsToStart ==
    [][\A o \in Servos :
          /\ (StartsMove(o) /\ Bouncing(servo[o]))
             => /\ servo'[o].mEndMicrosecondsOrUnits = servo[o].mCurrentMicrosecondsOrUnits
                /\ servo'[o].mStartMicrosecondsOrUnits = servo[o].mCurrentMicrosecondsOrUnits
                /\ servo'[o].mMillisForCompleteMove =
                      IF lastOp'.op = "startEaseToD" THEN lastOp'.params[2]
                      ELSE (2 * MillisForSpeed(servo[o], lastOp'.params[1],
                                               lastOp'.params[2])) % UINT16_MODULUS
          /\ CompletesBounce(o)
             => /\ out'[o] = <<servo[o].mStartMicrosecondsOrUnits>>
                /\ servo'[o].mCurrentMicrosecondsOrUnits = servo[o].mStartMicrosecondsOrUnits
                /\ ~servo'[o].mServoMoves]_vars

\* a bouncing move started by speed from 0 degree toward 180 degree, of twice
\* the time of the distance, has been at its turning point and is completed by
\* an update() that puts the channel back to 0 degree
C27_Witness ==
    /\ lastOp.op = "update"
    /\ lastOp.ret = "true"
    /\ Bouncing(servo[1])
    /\ ~servo[1].mServoMoves
    /\ servo[1].mMillisForCompleteMove = 2 * REFRESH_INTERVAL_MILLIS
    /\ now - servo[1].mMillisAtStartMove >= servo[1].mMillisForCompleteMove
    /\ servo[1].mDeltaMicrosecondsOrUnits =
          DEFAULT_MICROSECONDS_FOR_180_DEGREE - DEFAULT_MICROSECONDS_FOR_0_DEGREE
    /\ servo[1].mStartMicrosecondsOrUnits = DEFAULT_MICROSECONDS_FOR_0_DEGREE
    /\ servo[1].mCurrentMicrosecondsOrUnits = DEFAULT_MICROSECONDS_FOR_0_DEGREE
    /\ out[1] = <<DEFAULT_MICROSECONDS_FOR_0_DEGREE>>

(* ------------------------------- C28 ----------------------------------- *)
\* the handler of object o has run in the step and has started a move: it is
\* one that calls startEaseToD() and the object is attached
StartsInCallback(o) ==
    /\ calls'[o] # <<>>
    /\ servo[o].TargetPositionReachedHandler = "restart"
    /\ servo[o].mServoIndex # INVALID_SERVO

\* C28: an update() in which the handler has run returns false if the handler
\* has started a move of the channel, and the channel moves then, and returns
\* true if it has not; an updateAllServos() with such a start returns false,
\* and a handleServoTimerInterrupt() with such a start leaves the periodic
\* trigger enabled
C28_RestartInCallbackKeepsMoving ==
    [][\A o \in Servos :
          /\ (lastOp'.op = "update" /\ lastOp'.o = o /\ calls'[o] # <<>>)
             => /\ StartsInCallback(o) => lastOp'.ret = "false" /\ servo'[o].mServoMoves
                /\ ~StartsInCallback(o) => lastOp'.ret = "true" /\ ~servo'[o].mServoMoves
          /\ (lastOp'.op = "updateAllServos" /\ Attached(o) /\ StartsInCallback(o))
             => lastOp'.ret = "false"
          /\ (lastOp'.op = "handleServoTimerInterrupt" /\ Attached(o) /\ StartsInCallback(o))
             => sInterruptsAreActive' /\ servo'[o].mServoMoves]_vars

\* the periodic trigger has completed a move of channel 1, the handler has
\* started the next one at this clock reading, and the trigger is still enabled
C28_Witness ==
    /\ lastOp.op = "handleServoTimerInterrupt"
    /\ Len(calls[1]) = 1
    /\ Len(out[1]) = 1
    /\ servo[1].TargetPositionReachedHandler = "restart"
    /\ servo[1].mServoMoves
    /\ servo[1].mMillisAtStartMove = now
    /\ servo[1].mMillisForCompleteMove = RestartMillis
    /\ servo[1].mStartMicrosecondsOrUnits = out[1][1]
    /\ sInterruptsAreActive

(* ------------------------------- C29 ----------------------------------- *)
\* C29: whenever the handler of a channel runs, the final pulse of the move
\* has been written, the channel does not move and its current position is
\* its end position
C29_CallbackSeesTargetReached ==
    [][\A o \in Servos : \A k \in 1..Len(calls'[o]) :
          /\ calls'[o][k].pulses >= 1
          /\ ~calls'[o][k].moves
          /\ calls'[o][k].atEnd]_vars

(* ------------------------------- C30 ----------------------------------- *)
\* write() or a start of a move, called for attached channel o in its slot
CommandsPosition(o) ==
    /\ lastOp'.op \in {"write", "startEaseToD", "startEaseTo"} /\ lastOp'.o = o
    /\ AttachedAtIndex(o)

\* the operations C30 says leave ServoEasingNextPositionArray alone
KeepsNextPositions ==
    TickOps \cup {"stop", "detach", "synchronizeAllServosAndStartInterrupt",
                  "setEaseToForAllServos"}

\* C30 as stated: after write(x) or a start of a move toward x on the attached
\* channel of slot i the entry i of ServoEasingNextPositionArray is x, and no
\* tick, stop, detach, synchronisation or setEaseToForAllServos() changes an
\* entry
C30_NextPositionIsLastCommand ==
    [][/\ \A o \in Servos :
             CommandsPosition(o)
             => ServoEasingNextPositionArray'[servo[o].mServoIndex] = lastOp'.params[1]
       /\ lastOp'.op \in KeepsNextPositions
             => ServoEasingNextPositionArray' = ServoEasingNextPositionArray]_vars

\* C30, amended: after write(x), or a start of a move toward x with an easing
\* type other than EASE_DUMMY_MOVE, on the attached channel of slot i the entry
\* i is x and the other entries are unchanged; a start with EASE_DUMMY_MOVE
\* changes no entry; stop, detach, synchronisation and setEaseToForAllServos()
\* change no entry, and a tick changes none unless a handler it calls starts a
\* move; setEaseToForAllServos() starts every attached channel, EASE_DUMMY_MOVE
\* apart, toward the entry of its slot
C30_NextPositionIsLastCommandOfSlot ==
    [][/\ \A o \in Servos :
             CommandsPosition(o)
             => ServoEasingNextPositionArray' =
                   IF lastOp'.op # "write" /\ servo[o].mEasingType = EASE_DUMMY_MOVE
                   THEN ServoEasingNextPositionArray
                   ELSE [ServoEasingNextPositionArray
                            EXCEPT ![servo[o].mServoIndex] = lastOp'.params[1]]
       /\ (/\ lastOp'.op \in KeepsNextPositions
           /\ \A o \in Servos : ~StartsInCallback(o))
             => ServoEasingNextPositionArray' = ServoEasingNextPositionArray
       /\ lastOp'.op = "setEaseToForAllServos"
             => \A i \in Slots :
                   (Occupied(i) /\ servo[ServoEasingArray[i]].mEasingType # EASE_DUMMY_MOVE)
                   => /\ servo'[ServoEasingArray[i]].mServoMoves
                      /\ servo'[ServoEasingArray[i]].mEndMicrosecondsOrUnits =
                            DegreeToMicrosecondsOrUnits(servo[ServoEasingArray[i]],
                                                        ServoEasingNextPositionArray[i])]_vars

\* channel 2 in slot 1 was written to 180 degree, channel 1 in slot 0 is where
\* a move toward 0 degree has put it, and setEaseToForAllServos() has started
\* both toward the entries of their slots, which it has left as they were
C30_Witness ==
    /\ lastOp.op = "setEaseToForAllServos"
    /\ ServoEasingArray = [i \in Slots |-> i + 1]
    /\ ServoEasingNextPositionArray = [i \in Slots |-> IF i = 1 THEN FarDegree ELSE 0]
    /\ \A o \in Servos : servo[o].mServoMoves /\ servo[o].mMillisAtStartMove = now
    /\ servo[1].mStartMicrosecondsOrUnits # DEFAULT_PULSE_WIDTH
    /\ servo[1].mEndMicrosecondsOrUnits = DEFAULT_MICROSECONDS_FOR_0_DEGREE
    /\ servo[2].mStartMicrosecondsOrUnits = DEFAULT_MICROSECONDS_FOR_180_DEGREE
    /\ servo[2].mEndMicrosecondsOrUnits = DEFAULT_MICROSECONDS_FOR_180_DEGREE
    /\ now > 0

(* ------------------------------- C31 ----------------------------------- *)
\* C31: a move started with EASE_DUMMY_MOVE has delta 0, and no update() of
\* it, the completing one included, writes a pulse or changes the current
\* position, whatever preceded the start
C31_DummyMoveDoesNotMove ==
    [][\A o \in Servos :
          /\ (StartsMove(o) /\ servo[o].mEasingType = EASE_DUMMY_MOVE)
             => servo'[o].mDeltaMicrosecondsOrUnits = 0
          /\ (/\ lastOp'.op = "update" /\ lastOp'.o = o
              /\ servo[o].mServoIndex # INVALID_SERVO
              /\ servo[o].mServoMoves
              /\ servo[o].mEasingType = EASE_DUMMY_MOVE)
             => /\ servo'[o].mCurrentMicrosecondsOrUnits =
                      servo[o].mCurrentMicrosecondsOrUnits
                /\ \A k \in 1..Len(out'[o]) :
                      out'[o][k] = servo[o].mCurrentMicrosecondsOrUnits]_vars

(* ------------------------------- C32 ----------------------------------- *)
\* C32: between two operations the periodic trigger is enabled only if an
\* attached channel moves
C32_TriggerOnlyWhileMoving ==
    sInterruptsAreActive => \E o \in Servos : AttachedMoving(o)

(* ------------------------------- C33 ----------------------------------- *)
\* C33: a handleServoTimerInterrupt() disables the periodic trigger exactly
\* when its updateAllServos() returned true; it disables the trigger when no
\* attached channel was moving and leaves it enabled when an attached channel
\* is still moving after the tick
C33_TickDisablesOnlyWhenAllStopped ==
    [][lastOp'.op = "handleServoTimerInterrupt" =>
          /\ ~sInterruptsAreActive' <=> updateAllServos(World, now, lastOp'.params[1], lastOp'.params[2]).ret
          /\ (\A o \in Servos : ~AttachedMoving(o)) => ~sInterruptsAreActive'
          /\ (\E o \in Servos : AttachedMoving(o)') => sInterruptsAreActive']_vars

C33_Witness ==
    /\ lastOp.op = "handleServoTimerInterrupt"
    /\ ~sInterruptsAreActive
    /\ \E o \in Servos : Attached(o) /\ out[o] # <<>>

(* ------------------------------- C34 ----------------------------------- *)
\* the occupied slots whose channel moves
MovingSlots ==
    {i \in Slots : Occupied(i) /\ servo[ServoEasingArray[i]].mServoMoves}

\* C34: synchronizeAllServosAndStartInterrupt() gives every channel that was
\* moving the start time the moving channel of the highest slot had before the
\* call, and changes no channel's start position, delta, end position or
\* current position
C34_SharedStartIsHighestMovingSlot ==
    [][lastOp'.op = "synchronizeAllServosAndStartInterrupt" =>
          /\ \A i \in MovingSlots : \A j \in MovingSlots :
                (\A k \in MovingSlots : k <= j) =>
                   servo'[ServoEasingArray[i]].mMillisAtStartMove
                      = servo[ServoEasingArray[j]].mMillisAtStartMove
          /\ \A o \in Servos : MovePositions(servo'[o]) = MovePositions(servo[o])
          /\ \A o \in Servos :
                servo'[o].mCurrentMicrosecondsOrUnits = servo[o].mCurrentMicrosecondsOrUnits]_vars

C34_Witness ==
    /\ lastOp.op = "synchronizeAllServosAndStartInterrupt"
    /\ \A o \in Servos : AttachedMoving(o)
    /\ servo[1].mMillisAtStartMove = servo[2].mMillisAtStartMove
    /\ servo[1].mMillisAtStartMove > 0
    /\ lastOp.params[1] # lastOp.params[2]

(* ------------------------------- C35 ----------------------------------- *)
\* C35: between two foreground calls, under every interleaving of the
\* statements of startEaseToD(..., START_UPDATE_BY_INTERRUPT) and stop() with
\* ticks, an attached channel that moves has the periodic trigger enabled
C35_MovingChannelKeepsTrigger ==
    \A o \in Servos : (pc = NoCall /\ AttachedMoving(o)) => sInterruptsAreActive

(* ------------------------------- C36 ----------------------------------- *)
\* C36: after stopAllServos() no attached channel moves, no channel's current
\* position has changed, and the periodic trigger is disabled
C36_StopAllStopsChannelsAndTrigger ==
    [][lastOp'.op = "stopAllServos" =>
          /\ \A o \in Servos : ~AttachedMoving(o)'
          /\ \A o \in Servos :
                servo'[o].mCurrentMicrosecondsOrUnits = servo[o].mCurrentMicrosecondsOrUnits
          /\ ~sInterruptsAreActive']_vars

(* ------------------------------- C37 ----------------------------------- *)
\* the slots that refer to o
SlotsOf(o) == {i \in Slots : ServoEasingArray[i] = o}

\* C37: after an attach() or a detach() the channel it was called on is in at
\* most one slot, is the occupant of the slot its mServoIndex names, and is in
\* no other slot and in no slot at all when its mServoIndex is INVALID_SERVO
C37_ChannelOccupiesOneSlot ==
    [][\A o \in Servos :
          (lastOp'.op \in {"attach", "detach"} /\ lastOp'.o = o) =>
             /\ Cardinality(SlotsOf(o)') <= 1
             /\ servo'[o].mServoIndex # INVALID_SERVO
                   => (servo'[o].mServoIndex \in Slots
                       /\ ServoEasingArray'[servo'[o].mServoIndex] = o)
             /\ \A i \in SlotsOf(o)' : servo'[o].mServoIndex = i]_vars

(* ------------------------------- C38 ----------------------------------- *)
\* p lies between a and b, the ends included
Between(a, p, b) == (a <= p /\ p <= b) \/ (b <= p /\ p <= a)

\* C38: every update() of a moving channel with a linear move leaves the
\* current position between the start and the end position, and no farther
\* from the end position than it was before
C38_LinearMoveIsMonotone ==
    [][\A o \in Servos :
          (/\ lastOp'.op = "update" /\ lastOp'.o = o
           /\ servo[o].mServoMoves
           /\ servo[o].mEasingType = EASE_LINEAR)
          => LET s == servo[o]
                 p == servo'[o].mCurrentMicrosecondsOrUnits
             IN /\ Between(s.mStartMicrosecondsOrUnits, p, s.mEndMicrosecondsOrUnits)
                /\ Abs(s.mEndMicrosecondsOrUnits - p)
                     <= Abs(s.mEndMicrosecondsOrUnits - s.mCurrentMicrosecondsOrUnits)]_vars

C38_Witness ==
    /\ lastOp.op = "update" /\ lastOp.o = 1
    /\ AttachedMoving(1)
    /\ servo[1].mEasingType = EASE_LINEAR
    /\ servo[1].mMillisForCompleteMove = 25
    /\ now - servo[1].mMillisAtStartMove = 8
    /\ servo[1].mDeltaMicrosecondsOrUnits < 0
    /\ servo[1].mCurrentMicrosecondsOrUnits
         = servo[1].mStartMicrosecondsOrUnits - CDiv(1856 * 8, 25)

(* ------------------------------- C39 ----------------------------------- *)
\* o has reached the end position of the move it was in when the call in
\* progress was entered
StoppedAtEnd(o) ==
    /\ ~servo[o].mServoMoves
    /\ pc.old[o] = 1 => servo[o].mCurrentMicrosecondsOrUnits = servo[o].mEndMicrosecondsOrUnits

\* the step is the return of the blocking call aFunction
ReturnsFrom(aFunction) == pc.fn = aFunction /\ pc' = NoCall

C40_ClipDegreeSpecial ==
    lastOp.op = "clipDegreeSpecial" =>
       LET x == lastOp.params[1]
           r == lastOp.params[2]
       IN /\ x < 180 => r = x
          /\ (180 <= x /\ x < 218) => r = 180
          /\ x >= 218 => r = 0

====
